---------------------------- MODULE Spec2Model ----------------------------
(***************************************************************************)
(* CompanionBot: the conversation orchestrator (chat, withRetry), the cron *)
(* job store and its dispatch, the background agent manager and the        *)
(* ambient current-conversation binding, as state machines.                *)
(*                                                                         *)
(* The subsystems do not share state, so each has its own next-state       *)
(* relation and specification (SpecRetry, SpecChat, SpecCron, SpecSched,   *)
(* SpecAgent, SpecTurn); the variables of the other subsystems stay at     *)
(* their initial values.                                                   *)
(***************************************************************************)
EXTENDS Integers, Sequences, FiniteSets, TLC

VARIABLES
    wr,            \* withRetry: the state of the retry loop in progress
    chatRev,       \* which revision of chat() runs
    script,        \* the model stub and the tools' behaviour of this invocation
    chatPc,        \* chat(): position
    iterations,    \* chat(): let iterations
    requests,      \* chat(): model requests issued (withRetry-wrapped, fallback apart)
    streamPhase,   \* chat() revision B: "stream" until the first request fell back
    response,      \* chat(): let response
    apiMessages,   \* chat(): const apiMessages
    toolsUsed,     \* chat(): const toolsUsed
    toolExec,      \* chat(): the settled executions of the round, by block index
    toolDone,      \* chat(): block indexes in the order their executions settled
    chatResult,    \* chat(): the value returned
    thinkingBudget, \* chat(): const thinkingBudget
    sentParams,    \* history: the parameters of the requests chat() issued
    now,           \* Date.now()
    lockFile,      \* cron-jobs.lock: absent (NoFile) or its owner and age
    cronFile,      \* cron-jobs.json: the jobs array of the stored document
    tempFile,      \* cron-jobs.json.tmp.<pid>: absent (NoFile) or a jobs array
    cronOp,        \* per caller: the store operation it runs
    cronPc,        \* per caller: its position in withLock(...)
    cronTry,       \* per caller: acquireLock's loop counter i
    cronJobs,      \* per caller: the jobs array it loaded (and changed)
    cronFault,     \* history: some creation of the lock file failed otherwise than by EEXIST
    cronFileComplete, \* cron-jobs.json: whether its content is a whole document
    cronFd,        \* per caller: the file its open descriptor (fs.writeFile) names
    ticks,         \* scheduler: ticks so far
    lastTick,      \* scheduler: time of the last tick (NULL before the first)
    running,       \* scheduler: the payloads in execution, each with its job
    dispatched,    \* scheduler: history of the dispatches (job, its nextRun, tick)
    agentRev,      \* which revision of the agent manager runs
    botInstance,   \* agent manager: whether setAgentBot has been called
    agents,        \* agent manager: the agents map, with each agent's LLM call
    posted,        \* agent manager: the messages sent to the chats, in order
    cancelOk,      \* history: per agent, whether a cancelAgent returned true
    currentChatId, \* session/state: let currentChatId
    turnChat,      \* per turn: the conversation it serves
    turnPc,        \* per turn: its position
    turnReads,     \* per turn: what its reads of the current chat id returned
    smartPc,          \* chatSmart(): position
    streamingStarted, \* chatSmart(): let streamingStarted
    accumulated,      \* chatSmart(): let accumulated
    delivered,        \* chatSmart(): the calls of callbacks.onChunk, in order
    smartWr,          \* chatSmart(): the withRetry loop of its catch block
    chatCalls,        \* chatSmart(): the calls of chat() it made
    streamErr,        \* history: the error the stream was rejected with
    smartResult,      \* chatSmart(): the value returned or the error thrown
    jobsLast,      \* history: the last operation on the jobs and what it found
    jobsRun,       \* the execution of a due job that is to be marked
    cronCall,       \* a call of calculateCronNextRun: its inputs and what it returned
    sessions, \* session/state: const sessions, the entries of the map in insertion order
    sessionOp, \* history: the last call on the sessions and the map before it
    warmupComplete, \* warmup.ts: let warmupComplete
    warmupResult, \* warmup.ts: let warmupResult (NoWarmupResult: null)
    warmupPromise, \* warmup.ts: let warmupPromise (NULL, or the doWarmup run the promise belongs to)
    warmupRuns, \* the doWarmup runs started so far: their three tasks and their result
    warmupCaller, \* each caller of warmup(): where it is, the promise it holds, what it got
    embeddingPipeline, \* embeddings.ts: let embeddingPipeline (NULL, or the load that produced it)
    isLoading, \* embeddings.ts: let isLoading
    loadingPromise, \* embeddings.ts: let loadingPromise (NULL, or the load the promise belongs to)
    pipelineLoads, \* the pipeline(...) loads started so far: pending, resolved or rejected
    pipelineCaller, \* each caller of getEmbeddingPipeline(): where it is, the promise it holds, what it got
    queryEmbeddingCache, \* embeddings.ts: const queryEmbeddingCache, its entries in insertion order
    embedCaller, \* each caller of embed() or embedBatch(): where it is, what it asked for, what it got
    embedOp, \* the last write to the cache: the size before it and the entries it evicted; the calls made
    chunkRows, \* the rows of the chunks table of the vector store
    chunkCache, \* embeddings.ts (vector store): let chunkCache
    chunkOp, \* the calls made on the vector store and the vectors computed for its rows
    splitCall, \* a call of splitIntoChunks: the text of the file, and the chunks once it has returned
    rrfCall, \* a call of combineWithRRF: its arguments, and the results once it has returned
    hybrid, \* a call of hybridSearch: its revision, the searches it awaits and its outcome
    runCommand, \* a call of executeRunCommand: the command line, the verdict on it and what the shell ran
    cachedWorkspace, \* workspace cache: let cachedWorkspace (the content, given by when it was read)
    workspaceCacheTime, \* workspace cache: let workspaceCacheTime
    wsLoadingPromise, \* workspace cache: let loadingPromise (the load it is the promise of)
    wsLoads, \* workspace cache: the calls of loadWorkspace() made so far
    wsCaller, \* per caller of getWorkspace(): its position and what it got
    wsEpoch, \* history: how many times invalidateWorkspaceCache() has returned
    remindersFile, \* reminders.json: the ids of its reminders
    activeSchedules, \* the ids that have a timer
    reminderCall, \* the calls of createReminder and deleteReminder in progress
    reminderLog \* the calls made, the ids given out, created and deleted

chatVars == <<chatRev, script, chatPc, iterations, requests, streamPhase,
              response, apiMessages, toolsUsed, toolExec, toolDone, chatResult,
              thinkingBudget, sentParams>>

cronVars == <<now, lockFile, cronFile, tempFile, cronOp, cronPc, cronTry, cronJobs,
              cronFault, cronFileComplete, cronFd>>

\* The cron store's state apart from the clock and the stored document.
lockVars == <<lockFile, tempFile, cronOp, cronPc, cronTry, cronJobs, cronFault,
              cronFileComplete, cronFd>>

schedVars == <<ticks, lastTick, running, dispatched>>

agentVars == <<agentRev, botInstance, agents, posted, cancelOk>>

turnVars == <<currentChatId, turnChat, turnPc, turnReads>>

smartVars == <<smartPc, streamingStarted, accumulated, delivered, smartWr,
               chatCalls, streamErr, smartResult>>

jobsVars == <<jobsLast, jobsRun>>

cronCallVars == <<cronCall>>

sessionVars == <<sessions, sessionOp>>

warmupVars == <<warmupComplete, warmupResult, warmupPromise, warmupRuns, warmupCaller>>

pipelineVars == <<embeddingPipeline, isLoading, loadingPromise, pipelineLoads, pipelineCaller>>

embedVars == <<queryEmbeddingCache, embedCaller, embedOp>>

chunkVars == <<chunkRows, chunkCache, chunkOp>>

splitVars == <<splitCall>>

rrfVars == <<rrfCall>>

hybridVars == <<hybrid>>

commandVars == <<runCommand>>

workspaceVars == <<cachedWorkspace, workspaceCacheTime, wsLoadingPromise, wsLoads, wsCaller, wsEpoch>>

remindersVars == <<remindersFile, activeSchedules, reminderCall, reminderLog>>

\* The state of the session store, of warmup, of the embedding module and of
\* the calls of pure functions: what the actions of the subsystems above leave
\* alone.
otherVars == <<cronCallVars, sessionVars, warmupVars, pipelineVars, embedVars, chunkVars, splitVars, rrfVars, hybridVars, commandVars, workspaceVars, remindersVars>>

\* The state of the subsystems above.
coreVars == <<wr, chatVars, cronVars, schedVars, agentVars, turnVars, smartVars,
              jobsVars>>

\* The same apart from the clock.
coreButNow == <<wr, chatVars, lockVars, cronFile, schedVars, agentVars, turnVars,
                smartVars, jobsVars>>

vars == <<coreVars, otherVars>>

\* What an action of chat() or of withRetry leaves alone.
notChat == <<cronVars, schedVars, agentVars, turnVars, smartVars, jobsVars, otherVars>>

\* What an action of chatSmart(), which runs chat(), leaves alone.
notSmart == <<cronVars, schedVars, agentVars, turnVars, jobsVars, otherVars>>

\* What an action of the cron store leaves alone.
notCron == <<wr, chatVars, schedVars, agentVars, turnVars, smartVars, jobsVars, otherVars>>

\* What an action of the scheduler leaves alone.
notSched == <<wr, chatVars, lockVars, agentVars, turnVars, smartVars, jobsVars, otherVars>>

\* What an action of the agent manager leaves alone.
notAgent == <<wr, chatVars, cronVars, schedVars, turnVars, smartVars, jobsVars, otherVars>>

\* What an action of a turn leaves alone.
notTurn == <<wr, chatVars, cronVars, schedVars, agentVars, smartVars, jobsVars, otherVars>>

\* What an operation on the jobs, run alone, leaves alone.
notJobs == <<wr, chatVars, lockVars, schedVars, agentVars, turnVars, smartVars, otherVars>>

\* What a call of calculateCronNextRun leaves alone.
notCronCall == <<coreVars, sessionVars, warmupVars, pipelineVars, embedVars, chunkVars, splitVars, rrfVars, hybridVars, commandVars, workspaceVars, remindersVars>>
notSession == <<coreButNow, cronCallVars, warmupVars, pipelineVars, embedVars, chunkVars, splitVars, rrfVars, hybridVars, commandVars, workspaceVars, remindersVars>>
notWarmup == <<coreVars, cronCallVars, sessionVars, pipelineVars, embedVars, chunkVars, splitVars, rrfVars, hybridVars, commandVars, workspaceVars, remindersVars>>
notPipeline == <<coreVars, cronCallVars, sessionVars, warmupVars, embedVars, chunkVars, splitVars, rrfVars, hybridVars, commandVars, workspaceVars, remindersVars>>
notEmbed == <<coreButNow, cronCallVars, sessionVars, warmupVars, pipelineVars, chunkVars, splitVars, rrfVars, hybridVars, commandVars, workspaceVars, remindersVars>>
notChunk == <<coreVars, cronCallVars, sessionVars, warmupVars, pipelineVars, embedVars, splitVars, rrfVars, hybridVars, commandVars, workspaceVars, remindersVars>>
notSplit == <<coreVars, cronCallVars, sessionVars, warmupVars, pipelineVars, embedVars, chunkVars, rrfVars, hybridVars, commandVars, workspaceVars, remindersVars>>
notRrf == <<coreVars, cronCallVars, sessionVars, warmupVars, pipelineVars, embedVars, chunkVars, splitVars, hybridVars, commandVars, workspaceVars, remindersVars>>
notHybrid == <<coreVars, cronCallVars, sessionVars, warmupVars, pipelineVars, embedVars, chunkVars, splitVars, rrfVars, commandVars, workspaceVars, remindersVars>>
notCommand == <<coreVars, cronCallVars, sessionVars, warmupVars, pipelineVars, embedVars, chunkVars, splitVars, rrfVars, hybridVars, workspaceVars, remindersVars>>
notWorkspace == <<coreButNow, cronCallVars, sessionVars, warmupVars, pipelineVars, embedVars, chunkVars, splitVars, rrfVars, hybridVars, commandVars, remindersVars>>
notReminders == <<coreVars, cronCallVars, sessionVars, warmupVars, pipelineVars, embedVars, chunkVars, splitVars, rrfVars, hybridVars, commandVars, workspaceVars>>

Min(a, b) == IF a <= b THEN a ELSE b

Range(s) == {s[i] : i \in DOMAIN s}

\* null / undefined.
NULL == 0 - 1

-----------------------------------------------------------------------------
(* utils/retry: isTransientError, getRetryAfterMs, withRetry               *)

maxRetries == 3
initialDelayMs == 1000
maxDelayMs == 30000
backoffMultiplier == 2

\* The substrings isTransientError looks for in the lower-cased message.
TransientPatterns ==
    {"econnreset", "econnrefused", "etimedout", "enotfound", "epipe",
     "socket hang up", "network", "timeout", "timed out",
     "temporarily unavailable", "try again", "rate limit", "429"}

\* An error value. cls is its class; msg is the set of the patterns above that
\* occur in its lower-cased message (all a test by includes() can see of it);
\* retryAfter is the retry-after header in seconds, NULL when absent.
APIError(status, retryAfter) ==
    [cls |-> "APIError", status |-> status, retryAfter |-> retryAfter, msg |-> {}]

PlainError(pats) ==
    [cls |-> "Error", status |-> 0, retryAfter |-> NULL, msg |-> pats]

\* class TimeoutError extends Error: withTimeout rejects with the caller's
\* message, or with "Operation timed out after <n>ms" when none is given.
TimeoutError(message) ==
    [cls |-> "TimeoutError", status |-> 0, retryAfter |-> NULL, msg |-> message]

DEFAULT_TIMEOUT_MESSAGE == {"timed out"}

\* A thrown value that is no Error (a string, an object).
ThrownValue == [cls |-> "value", status |-> 0, retryAfter |-> NULL, msg |-> {}]

NoError == [cls |-> "none", status |-> 0, retryAfter |-> NULL, msg |-> {}]

\* chat() passes withTimeout the message "API 응답 시간 초과": none of the patterns.
API_TIMEOUT_MESSAGE == {}

isTransientError(error) ==
    IF error.cls = "APIError"
    THEN \/ error.status = 429
         \/ (error.status >= 500 /\ error.status < 600)
         \/ error.status = 408
         \/ error.status \in {502, 503, 504}
    ELSE IF error.cls \in {"Error", "TimeoutError"}
    THEN error.msg \cap TransientPatterns # {}
    ELSE FALSE

getRetryAfterMs(error) ==
    IF error.cls = "APIError" /\ error.status = 429 /\ error.retryAfter # NULL
    THEN error.retryAfter * 1000
    ELSE NULL

\* withRetry at its entry: attempt 0, delay = initialDelayMs.
WrStart ==
    [pc |-> "call", attempt |-> 0, delay |-> initialDelayMs, calls |-> 0,
     sleeping |-> 0, sleeps |-> <<>>, lastError |-> NoError, result |-> NULL]

\* A faulty test that retries whatever the error is.
RethrowsOnLastAttemptOnly(w, error) == w.attempt >= maxRetries

\* The catch block's test: rethrow on the last attempt or a non-retryable error.
Rethrows(w, error) == w.attempt >= maxRetries \/ ~isTransientError(error)

\* fn() resolved: withRetry returns its value.
WrReturn(w, value) == [w EXCEPT !.pc = "ok", !.calls = @ + 1, !.result = value]

\* fn() rejected with error: rethrow, or start the sleep before the next attempt.
WrCatch(w, error) ==
    IF Rethrows(w, error)
    THEN [w EXCEPT !.pc = "thrown", !.calls = @ + 1, !.lastError = error]
    ELSE LET retryAfter == getRetryAfterMs(error)
             actualDelay == IF retryAfter # NULL THEN retryAfter ELSE w.delay
             cappedDelay == Min(actualDelay, maxDelayMs)
         IN  [w EXCEPT !.pc = "sleep", !.calls = @ + 1, !.lastError = error,
                       !.sleeping = cappedDelay]

\* sleep(cappedDelay) is over: the next delay (unless a retry-after was used, a
\* retry-after of 0 counting as none: !retryAfter), then the next attempt.
WrWake(w) ==
    LET retryAfter == getRetryAfterMs(w.lastError)
    IN  [w EXCEPT !.pc = "call", !.attempt = @ + 1,
                  !.sleeps = Append(@, w.sleeping), !.sleeping = 0,
                  !.delay = IF retryAfter = NULL \/ retryAfter = 0
                            THEN Min(@ * backoffMultiplier, maxDelayMs)
                            ELSE @]

\* The errors a wrapped request is made to fail with.
ApiStatuses == {400, 401, 408, 429, 499, 500, 503, 599, 600}
RetryAfterHeaders == {NULL, 0, 2, 60}

Errors ==
    {APIError(s, NULL) : s \in ApiStatuses}
    \cup {APIError(429, h) : h \in RetryAfterHeaders}
    \cup {PlainError({p}) : p \in TransientPatterns}
    \cup {PlainError({}), TimeoutError(DEFAULT_TIMEOUT_MESSAGE), TimeoutError(API_TIMEOUT_MESSAGE),
          ThrownValue}

-----------------------------------------------------------------------------
(* tools/timeout, tools/compress: getToolTimeout, compressToolResult        *)

\* A string: the tokens it is made of, in order, and its length in characters.
Str(tokens, length) == [s |-> tokens, len |-> length]

\* a + b
Concat(a, b) == Str(a.s \o b.s, a.len + b.len)

\* str.slice(0, n)
Slice(str, n) ==
    IF str.len <= n THEN str ELSE Str(<<Head(str.s)>>, n)

TOOL_RESULT_MAX_LENGTH == 10000
TOOL_INPUT_SUMMARY_LENGTH == 200
TOOL_OUTPUT_SUMMARY_LENGTH == 500
DEFAULT_TOOL_TIMEOUT == 30000

\* TOOL_TIMEOUTS[toolName] ?? DEFAULT_TOOL_TIMEOUT
getToolTimeout(toolName) ==
    CASE toolName = "read_file" -> 5000
      [] toolName = "web_search" -> 15000
      [] OTHER -> DEFAULT_TOOL_TIMEOUT

\* Results up to the cap pass unchanged; of the longer ones only the default
\* branch (a tool with no compressor of its own) is modelled.
compressToolResult(toolName, result) ==
    IF result.len <= TOOL_RESULT_MAX_LENGTH
    THEN result
    ELSE Concat(Slice(result, TOOL_RESULT_MAX_LENGTH), Str(<<"... (truncated)">>, 15))

-----------------------------------------------------------------------------
(* ai/claude: chat(), in its three revisions                                *)
(*   A  src/unnamed/part_008, lines 154-332                                 *)
(*   B  src/unnamed/part_008, lines 645-819 (first request streamed)        *)
(*   C  src/src/config/features.ts, lines 266-436                           *)

MAX_TOOL_ITERATIONS == 10

\* Most tool_use blocks in one response.
MaxTools == 2

ChatRevisions == {"A", "B", "C"}

\* How a tool's execution ends: executeTool resolves, executeTool rejects, or
\* the timer of the race fires first.
Outcomes == {"ok", "throw", "timeout"}

\* The model stub: its first `want` responses request `k` tools each, the later
\* ones end the turn; every response starts with `texts` text blocks. The tool
\* of block index i ends as outcome[i], in every round. Wants: the model never
\* asks for tools, stops after one or two rounds, stops exactly at the cap, or
\* still asks at the cap.
Wants == {0, 1, 2, MAX_TOOL_ITERATIONS, MAX_TOOL_ITERATIONS + 1}

Scripts ==
    UNION {[k : {k}, outcome : [1..k -> Outcomes], want : Wants, texts : 0..1] :
              k \in 0..MaxTools}

ToolNameAt(i) ==
    CASE i = 1 -> "read_file"
      [] i = 2 -> "web_search"
      [] OTHER -> "custom_tool"

TextBlock(n, j) == [type |-> "text", text |-> <<"text", n, j>>, id |-> NULL,
                    name |-> ""]

ToolUseBlock(n, i) == [type |-> "tool_use", text |-> <<>>, id |-> <<n, i>>,
                       name |-> ToolNameAt(i)]

\* The n-th response of the model stub.
ModelResponse(n) ==
    LET textBlocks == [j \in 1..script.texts |-> TextBlock(n, j)]
    IN  IF n <= script.want
        THEN [stop_reason |-> "tool_use",
              content |-> textBlocks \o [i \in 1..script.k |-> ToolUseBlock(n, i)]]
        ELSE [stop_reason |-> "end_turn", content |-> textBlocks]

NoResponse == [stop_reason |-> "none", content |-> <<>>]

IsToolUse(block) == block.type = "tool_use"
IsText(block) == block.type = "text"

\* response.content.filter(block => block.type === "tool_use")
toolUseBlocks == SelectSeq(response.content, IsToolUse)

\* A faulty loop condition without the iteration cap.
LoopWithoutCap(resp, iters) == resp.stop_reason = "tool_use"

\* while (response.stop_reason === "tool_use" && iterations < MAX_TOOL_ITERATIONS)
LoopContinues(resp, iters) ==
    resp.stop_reason = "tool_use" /\ iters < MAX_TOOL_ITERATIONS

\* Promise.race([executeTool(...), timer]): how it settles.
RaceSettles(toolUse, outcome) ==
    CASE outcome = "ok" ->
           [status |-> "fulfilled",
            value |-> Str(<<"output of ", toolUse.name>>, 20)]
      [] outcome = "throw" ->
           [status |-> "rejected", value |-> Str(<<"tool failed">>, 11)]
      [] outcome = "timeout" ->
           [status |-> "rejected",
            value |-> Str(<<"Tool ", toolUse.name, " timed out after ",
                            getToolTimeout(toolUse.name), "ms">>, 40)]

\* A faulty variant without the try/catch: the rejection leaves the callback.
ToolExecutionUncaught(toolUse, outcome) ==
    LET settled == RaceSettles(toolUse, outcome)
    IN  [toolUse |-> toolUse, result |-> settled.value,
         success |-> settled.status = "fulfilled",
         rejected |-> settled.status = "rejected", settled |-> TRUE]

\* The async callback of toolUseBlocks.map: what it resolves to. Its try/catch
\* turns a rejection of the race into an "Error: ..." result.
ToolExecution(toolUse, outcome) ==
    LET settled == RaceSettles(toolUse, outcome)
    IN  IF settled.status = "fulfilled"
        THEN [toolUse |-> toolUse,
              result |-> compressToolResult(toolUse.name, settled.value),
              success |-> TRUE, rejected |-> FALSE, settled |-> TRUE]
        ELSE [toolUse |-> toolUse,
              result |-> Concat(Str(<<"Error: ">>, 7), settled.value),
              success |-> FALSE, rejected |-> FALSE, settled |-> TRUE]

\* An execution that has not settled yet.
Pending == [toolUse |-> [type |-> "none", text |-> <<>>, id |-> NULL, name |-> ""],
            result |-> Str(<<>>, 0), success |-> FALSE, rejected |-> FALSE,
            settled |-> FALSE]

\* A faulty collection that takes the executions in the order they settled.
ToolResultsInSettleOrder(execs, order) ==
    [i \in 1..Len(execs) |->
        [type |-> "tool_result", tool_use_id |-> execs[order[i]].toolUse.id,
         content |-> execs[order[i]].result]]

\* toolExecutions.map(exec => ({type: "tool_result", tool_use_id, content})):
\* Promise.all keeps the order of toolUseBlocks, not the order of settling.
ToolResults(execs, order) ==
    [i \in 1..Len(execs) |->
        [type |-> "tool_result", tool_use_id |-> execs[i].toolUse.id,
         content |-> execs[i].result]]

\* toolsUsed.push({name, input: ...slice(0, 200), output: result.slice(0, 500)})
ToolSummaries(execs) ==
    [i \in 1..Len(execs) |->
        [name |-> execs[i].toolUse.name,
         input |-> Slice(Str(<<"input of ", execs[i].toolUse.id>>, 12),
                         TOOL_INPUT_SUMMARY_LENGTH),
         output |-> Slice(execs[i].result, TOOL_OUTPUT_SUMMARY_LENGTH)]]

\* The two fixed texts of chat() (Korean in the source): "the tool execution
\* repeated too many times, try again?" and "could not generate a response".
TooManyToolCalls == <<"too many tool calls">>
NoTextGenerated == <<"no response generated">>

\* What chat() returns once the loop is left.
\*   A, C: the fixed text when iterations >= MAX_TOOL_ITERATIONS, else the first
\*         text block (or the fixed "no response" text);
\*   B:    the text blocks of the last response, joined.
FinalResult(rev, resp, iters, used) ==
    LET textBlocks == SelectSeq(resp.content, IsText)
    IN  IF rev = "B"
        THEN [text |-> [j \in 1..Len(textBlocks) |-> textBlocks[j].text],
              toolsUsed |-> used]
        ELSE IF iters >= MAX_TOOL_ITERATIONS
        THEN [text |-> TooManyToolCalls, toolsUsed |-> used]
        ELSE [text |-> IF Len(textBlocks) > 0 THEN <<textBlocks[1].text>>
                       ELSE NoTextGenerated,
              toolsUsed |-> used]

NoResult == [text |-> <<>>, toolsUsed |-> <<>>]

\* calculateTokenBudgets: a budget below 1024 is turned into 0 (no thinking).
MIN_THINKING_BUDGET == 1024

\* The values of thinkingBudget: thinking off or unsupported, thinking on.
ThinkingBudgets == {0, MIN_THINKING_BUDGET}

\* The parameters of request number n: params.thinking is set
\*   A: by buildRequestParams, for every request, when thinkingBudget > 0;
\*   B: by streamRequest (the streamed first request) when thinkingBudget > 0,
\*      never by nonStreamRequest;
\*   C: never.
RequestParams(rev, phase, n, budget) ==
    [request |-> n,
     stream |-> phase = "stream",
     thinking |-> CASE rev = "A" -> budget > 0
                    [] rev = "B" -> phase = "stream" /\ budget > 0
                    [] rev = "C" -> FALSE]

\* The errors a model request is made to fail with: a retryable one, one that
\* is not, and the outer timeout's (withTimeout(..., "API 응답 시간 초과")).
ChatErrors ==
    {APIError(500, NULL), APIError(400, NULL), TimeoutError(API_TIMEOUT_MESSAGE)}

ChatIdle ==
    /\ chatRev = "A"
    /\ script = [k |-> 0, outcome |-> <<>>, want |-> 0, texts |-> 0]
    /\ chatPc = "idle"
    /\ iterations = 0
    /\ requests = 0
    /\ streamPhase = "nonstream"
    /\ response = NoResponse
    /\ apiMessages = <<>>
    /\ toolsUsed = <<>>
    /\ toolExec = <<>>
    /\ toolDone = <<>>
    /\ chatResult = NoResult
    /\ thinkingBudget = 0
    /\ sentParams = <<>>

\* chat(messages, ...) is called, the model following one of `scripts` and the
\* thinking budget being one of `budgets`: the first request is about to be
\* sent.
ChatBegins(scripts, budgets) ==
    /\ chatRev \in ChatRevisions
    /\ script \in scripts
    /\ chatPc = "request"
    /\ iterations = 0
    /\ requests = 1
    /\ streamPhase = IF chatRev = "B" THEN "stream" ELSE "nonstream"
    /\ response = NoResponse
    /\ apiMessages = <<[role |-> "user", content |-> <<"hello">>]>>
    /\ toolsUsed = <<>>
    /\ toolExec = <<>>
    /\ toolDone = <<>>
    /\ chatResult = NoResult
    /\ thinkingBudget \in budgets
    /\ sentParams = <<RequestParams(chatRev, streamPhase, 1, thinkingBudget)>>

\* chat() with thinking off (thinkingLevel "off": a budget of 0), over every
\* script.
ChatInit == ChatBegins(Scripts, {0})

\* The scripts of at most two tool rounds: chat() sends up to three requests.
ThinkingScripts == {s \in Scripts : s.want <= 2}

\* chat() with thinking off or on, over the scripts of a few requests.
ThinkingInit == ChatBegins(ThinkingScripts, ThinkingBudgets)

\* The request in flight fails with `error`: withRetry sleeps or rethrows. A
\* rethrow ends chat(), except in revision B for the streamed first request,
\* which is sent again non-streamed under a new withRetry.
ChatRequestFails(error) ==
    /\ chatPc = "request" /\ wr.pc = "call"
    /\ LET caught == WrCatch(wr, error)
       IN  IF caught.pc = "thrown" /\ chatRev = "B" /\ streamPhase = "stream"
           THEN /\ wr' = WrStart
                /\ streamPhase' = "nonstream"
                /\ chatPc' = chatPc
                /\ sentParams' = Append(sentParams,
                      RequestParams(chatRev, "nonstream", requests, thinkingBudget))
           ELSE /\ wr' = caught
                /\ streamPhase' = streamPhase
                /\ chatPc' = IF caught.pc = "thrown" THEN "thrown" ELSE chatPc
                /\ sentParams' = sentParams
    /\ UNCHANGED <<chatRev, script, iterations, requests, response, apiMessages,
                   toolsUsed, toolExec, toolDone, chatResult, thinkingBudget>>
    /\ UNCHANGED notChat

\* withRetry's sleep before the next attempt is over.
ChatRetryWakes ==
    /\ chatPc = "request" /\ wr.pc = "sleep"
    /\ wr' = WrWake(wr)
    /\ UNCHANGED chatVars
    /\ UNCHANGED notChat

\* The request in flight is answered. The loop condition is tested at once:
\* either a tool round starts (every block's execution is started) or chat()
\* returns.
ChatResponse ==
    /\ chatPc = "request" /\ wr.pc = "call"
    /\ LET resp == ModelResponse(requests)
           blocks == SelectSeq(resp.content, IsToolUse)
       IN  /\ wr' = WrReturn(wr, requests)
           /\ response' = resp
           /\ streamPhase' = "nonstream"
           /\ IF LoopContinues(resp, iterations)
              THEN /\ iterations' = iterations + 1
                   /\ chatPc' = "tools"
                   /\ toolExec' = [i \in 1..Len(blocks) |-> Pending]
                   /\ toolDone' = <<>>
                   /\ chatResult' = chatResult
              ELSE /\ chatPc' = "returned"
                   /\ chatResult' = FinalResult(chatRev, resp, iterations, toolsUsed)
                   /\ UNCHANGED <<iterations, toolExec, toolDone>>
    /\ UNCHANGED <<chatRev, script, requests, apiMessages, toolsUsed,
                   thinkingBudget, sentParams>>
    /\ UNCHANGED notChat

\* The execution of block i settles (in any order among the blocks). A
\* rejection of a callback would reject Promise.all and with it chat().
ChatToolSettles(i) ==
    /\ chatPc = "tools"
    /\ i \in DOMAIN toolExec /\ ~toolExec[i].settled
    /\ LET exec == ToolExecution(toolUseBlocks[i], script.outcome[i])
       IN  /\ toolExec' = [toolExec EXCEPT ![i] = exec]
           /\ chatPc' = IF exec.rejected THEN "thrown" ELSE chatPc
    /\ toolDone' = Append(toolDone, i)
    /\ UNCHANGED <<wr, chatRev, script, iterations, requests, streamPhase,
                   response, apiMessages, toolsUsed, chatResult, thinkingBudget,
                   sentParams>>
    /\ UNCHANGED notChat

\* Promise.all resolved: the summaries, the assistant message and the
\* tool_result message are appended and the next request is sent.
ChatRoundEnds ==
    /\ chatPc = "tools"
    /\ \A i \in DOMAIN toolExec : toolExec[i].settled
    /\ toolsUsed' = toolsUsed \o ToolSummaries(toolExec)
    /\ apiMessages' = apiMessages \o
          <<[role |-> "assistant", content |-> response.content],
            [role |-> "user", content |-> ToolResults(toolExec, toolDone)]>>
    /\ requests' = requests + 1
    /\ sentParams' = Append(sentParams,
          RequestParams(chatRev, "nonstream", requests + 1, thinkingBudget))
    /\ wr' = WrStart
    /\ chatPc' = "request"
    /\ UNCHANGED <<chatRev, script, iterations, streamPhase, response, toolExec,
                   toolDone, chatResult, thinkingBudget>>
    /\ UNCHANGED notChat

NextChat ==
    \/ \E error \in ChatErrors : ChatRequestFails(error)
    \/ ChatRetryWakes
    \/ ChatResponse
    \/ \E i \in 1..MaxTools : ChatToolSettles(i)
    \/ ChatRoundEnds

-----------------------------------------------------------------------------
(* withRetry on its own, over every error of Errors                         *)

RetryFails(error) ==
    /\ chatPc = "idle" /\ wr.pc = "call"
    /\ wr' = WrCatch(wr, error)
    /\ UNCHANGED chatVars
    /\ UNCHANGED notChat

RetrySucceeds ==
    /\ chatPc = "idle" /\ wr.pc = "call"
    /\ wr' = WrReturn(wr, 1)
    /\ UNCHANGED chatVars
    /\ UNCHANGED notChat

RetryWakes ==
    /\ chatPc = "idle" /\ wr.pc = "sleep"
    /\ wr' = WrWake(wr)
    /\ UNCHANGED chatVars
    /\ UNCHANGED notChat

NextRetry ==
    \/ \E error \in Errors : RetryFails(error)
    \/ RetrySucceeds
    \/ RetryWakes

-----------------------------------------------------------------------------
(* cron/store: calculateNextRun and the operations on the jobs array        *)

\* A cron expression is the array expression.split(" ") gives: one record per
\* field, "*" (Star), "*/n" (Step(n)) or a list of numbers and ranges such as
\* "0", "1,3,5", "1-5", "60" (List of the numbers it names).
Star == [kind |-> "star", step |-> 0, values |-> {}]
Step(n) == [kind |-> "step", step |-> n, values |-> {}]
List(values) == [kind |-> "list", step |-> 0, values |-> values]

NoExpr == <<>>

\* parseCronField(field, min, max): the values of the field within min..max
\* (steps of 1 and more).
parseCronField(field, min, max) ==
    CASE field.kind = "star" -> min..max
      [] field.kind = "step" -> {i \in min..max : (i - min) % field.step = 0}
      [] field.kind = "list" -> {v \in field.values : v >= min /\ v <= max}

\* Time is counted in minutes from 1 January 1970, 00:00 UTC, a Thursday.
MINUTES_PER_DAY == 1440
DAYS_PER_YEAR == 365
EPOCH_DAY_OF_WEEK == 4

\* const maxIterations = 366 * 24 * 60
maxIterations == 366 * 24 * 60

\* How far the local time of a zone is ahead of UTC, in minutes; no zone given
\* is the zone of the host, taken to be UTC.
UtcOffset(timezone) == IF timezone = "Asia/Seoul" THEN 540 ELSE 0

\* getDaysInMonth(year, month), for the years 1970 and 1971.
getDaysInMonth(month) ==
    CASE month \in {4, 6, 9, 11} -> 30
      [] month = 2 -> 28
      [] OTHER -> 31

\* The days of the year before the first of the month.
DaysBefore(month) ==
    <<0, 31, 59, 90, 120, 151, 181, 212, 243, 273, 304, 334>>[month]

\* getTimeInTimezone: month, day of the month and day of the week of the d-th
\* day after 1 January 1970.
DateOfDay(d) ==
    LET dayOfYear == d % DAYS_PER_YEAR
        month == CHOOSE m \in 1..12 :
                    /\ DaysBefore(m) <= dayOfYear
                    /\ dayOfYear < DaysBefore(m) + getDaysInMonth(m)
    IN  [month |-> month, day |-> dayOfYear - DaysBefore(month) + 1,
         dayOfWeek |-> (EPOCH_DAY_OF_WEEK + d) % 7]

SetMin(S) == CHOOSE x \in S : \A y \in S : x <= y

\* The first day from d to last whose month, day and day of the week are
\* all in the fields' values; NULL when there is none.
FirstDay(d, last, months, daysOfMonth, daysOfWeek) ==
    LET Matches(x) ==
            LET date == DateOfDay(x)
            IN  /\ date.month \in months
                /\ date.day \in daysOfMonth
                /\ date.dayOfWeek \in daysOfWeek
    IN  IF \E x \in d..last : Matches(x)
        THEN CHOOSE x \in d..last :
                Matches(x) /\ \A y \in d..(x - 1) : ~Matches(y)
        ELSE NULL

\* The time zone of the host (Intl.DateTimeFormat().resolvedOptions().timeZone)
\* that the operations of the store run on.
HostTimezone == "UTC"

\* const tz = timezone || Intl.DateTimeFormat().resolvedOptions().timeZone
TimezoneOf(timezone, host) == IF timezone = "" THEN host ELSE timezone

\* getTimeInTimezone(date, timezone): the local time of the zone at time t,
\* counted in minutes like t; its components are LocalHour, LocalMinute and
\* the DateOfDay of LocalDay.
getTimeInTimezone(t, timezone) == t + UtcOffset(timezone)

LocalDay(local) == local \div MINUTES_PER_DAY
LocalHour(local) == (local % MINUTES_PER_DAY) \div 60
LocalMinute(local) == local % 60

\* The loop of createDateInTimezone from its pass i on: the guess is moved by
\* the difference between the wanted hour and minute and the guess's hour and
\* minute in the zone, a day being added when the wanted day of the month is
\* greater than the guess's (or is 1 against a day after the 20th) and taken
\* off otherwise; it stops after 3 passes or when the difference is 0.
RECURSIVE AdjustGuess(_, _, _, _)
AdjustGuess(guess, local, timezone, i) ==
    IF i >= 3
    THEN guess
    ELSE LET shown == getTimeInTimezone(guess, timezone)
             day == DateOfDay(LocalDay(local)).day
             guessDay == DateOfDay(LocalDay(shown)).day
             diffMinutes == (LocalHour(local) - LocalHour(shown)) * 60
                            + (LocalMinute(local) - LocalMinute(shown))
             wrapped == IF day = guessDay
                        THEN diffMinutes
                        ELSE IF day > guessDay \/ (day = 1 /\ guessDay > 20)
                        THEN diffMinutes + 24 * 60
                        ELSE diffMinutes - 24 * 60
         IN  IF wrapped = 0
             THEN guess
             ELSE AdjustGuess(guess + wrapped, local, timezone, i + 1)

\* createDateInTimezone(year, month, day, hour, minute, timezone): the first
\* guess is new Date(dateStr), the wanted local time read in the host's zone.
createDateInTimezone(local, timezone, host) ==
    AdjustGuess(local - UtcOffset(host), local, timezone, 0)

\* The search loop of calculateCronNextRun from the local minute after `from`
\* up to the local minute `last`: the first minute whose month, day, day of
\* the week, hour and minute are all in the fields' values (NULL when there
\* is none). The loop's steps of one minute are taken together: the rest of
\* the hour, the rest of the day, then the first matching day after it.
NextMatching(expression, from, last) ==
    LET today == LocalDay(from)
        hourNow == LocalHour(from)
        minuteNow == LocalMinute(from)
        targetMinutes == parseCronField(expression[1], 0, 59)
        targetHours == parseCronField(expression[2], 0, 23)
        targetDaysOfMonth == parseCronField(expression[3], 1, 31)
        targetMonths == parseCronField(expression[4], 1, 12)
        targetDaysOfWeek == parseCronField(expression[5], 0, 6)
        laterThisHour == IF hourNow \in targetHours
                         THEN {m \in targetMinutes : m > minuteNow}
                         ELSE {}
        laterHours == {h \in targetHours : h > hourNow}
        todayMatches ==
            FirstDay(today, today, targetMonths, targetDaysOfMonth,
                     targetDaysOfWeek) = today
        Within(local) == IF local <= last THEN local ELSE NULL
    IN  IF targetMinutes = {} \/ targetHours = {}
        THEN NULL
        ELSE IF todayMatches /\ laterThisHour # {}
        THEN Within(today * MINUTES_PER_DAY + hourNow * 60
                    + SetMin(laterThisHour))
        ELSE IF todayMatches /\ laterHours # {}
        THEN Within(today * MINUTES_PER_DAY + SetMin(laterHours) * 60
                    + SetMin(targetMinutes))
        ELSE LET day == FirstDay(today + 1, LocalDay(last), targetMonths,
                                 targetDaysOfMonth, targetDaysOfWeek)
             IN  IF day = NULL
                 THEN NULL
                 ELSE Within(day * MINUTES_PER_DAY + SetMin(targetHours) * 60
                             + SetMin(targetMinutes))

\* The search of calculateCronNextRun: a minute that matches is turned into a
\* date by createDateInTimezone and returned when that date is later than now;
\* otherwise the search goes on from that minute.
RECURSIVE CronSearch(_, _, _, _, _, _)
CronSearch(expression, tz, host, t, from, last) ==
    LET local == NextMatching(expression, from, last)
    IN  IF local = NULL
        THEN NULL
        ELSE LET nextRun == createDateInTimezone(local, tz, host)
             IN  IF nextRun > t
                 THEN nextRun
                 ELSE CronSearch(expression, tz, host, t, local, last)

\* calculateCronNextRun(expression, timezone) at time t on a host of zone
\* `host`: NULL (undefined) for an expression of other than 5 fields or when
\* the search of maxIterations minutes finds nothing.
CronNextRunOn(host, expression, timezone, t) ==
    IF Len(expression) # 5
    THEN NULL
    ELSE LET tz == TimezoneOf(timezone, host)
             current == getTimeInTimezone(t, tz)
         IN  CronSearch(expression, tz, host, t, current,
                        current + maxIterations - 1)

calculateCronNextRun(expression, timezone, t) ==
    CronNextRunOn(HostTimezone, expression, timezone, t)

\* A schedule {kind, atMs, everyMs, intervalMs, startMs, expression, timezone};
\* 0 stands for a number left out (both are falsy). NoSchedule is the schedule
\* of a job that has a cronExpr instead.
At(atMs) == [kind |-> "at", atMs |-> atMs, everyMs |-> 0, intervalMs |-> 0,
             startMs |-> 0, expression |-> NoExpr, timezone |-> ""]

Every(everyMs, startMs) ==
    [kind |-> "every", atMs |-> 0, everyMs |-> everyMs, intervalMs |-> 0,
     startMs |-> startMs, expression |-> NoExpr, timezone |-> ""]

Cron(expression, timezone) ==
    [kind |-> "cron", atMs |-> 0, everyMs |-> 0, intervalMs |-> 0,
     startMs |-> 0, expression |-> expression, timezone |-> timezone]

NoSchedule ==
    [kind |-> "none", atMs |-> 0, everyMs |-> 0, intervalMs |-> 0,
     startMs |-> 0, expression |-> NoExpr, timezone |-> ""]

DEFAULT_INTERVAL_MS == 60000

calculateNextRun(schedule, t) ==
    CASE schedule.kind = "at" ->
           IF schedule.atMs > t THEN schedule.atMs ELSE NULL
      [] schedule.kind = "every" ->
           LET intervalMs == IF schedule.everyMs # 0 THEN schedule.everyMs
                             ELSE IF schedule.intervalMs # 0 THEN schedule.intervalMs
                             ELSE DEFAULT_INTERVAL_MS
               startAt == IF schedule.startMs # 0 THEN schedule.startMs ELSE t
           IN  IF startAt > t THEN startAt ELSE t + intervalMs
      [] schedule.kind = "cron" ->
           calculateCronNextRun(schedule.expression, schedule.timezone, t)

\* job.schedule ? calculateNextRun(job.schedule)
\*              : calculateCronNextRun(job.cronExpr, job.timezone)
NextRunOf(job, t) ==
    IF job.schedule.kind # "none"
    THEN calculateNextRun(job.schedule, t)
    ELSE calculateCronNextRun(job.cronExpr, job.timezone, t)

\* A NewCronJob: maxRuns and runCount are NULL when left out.
NewJob(schedule, maxRuns) ==
    [id |-> "", enabled |-> TRUE, schedule |-> schedule, cronExpr |-> NoExpr,
     timezone |-> "", maxRuns |-> maxRuns, runCount |-> NULL, nextRun |-> NULL,
     lastRun |-> NULL, createdAt |-> NULL]

\* A NewCronJob with a cronExpr and no schedule.
NewExprJob(cronExpr, timezone) ==
    [id |-> "", enabled |-> TRUE, schedule |-> NoSchedule, cronExpr |-> cronExpr,
     timezone |-> timezone, maxRuns |-> NULL, runCount |-> NULL, nextRun |-> NULL,
     lastRun |-> NULL, createdAt |-> NULL]

\* jobs.findIndex(j => j.id === jobId), 0 when there is none.
FindIndex(jobs, jobId) ==
    IF \E i \in DOMAIN jobs : jobs[i].id = jobId
    THEN CHOOSE i \in DOMAIN jobs :
            /\ jobs[i].id = jobId
            /\ \A k \in DOMAIN jobs : jobs[k].id = jobId => i <= k
    ELSE 0

\* The body of addJob between loadJobsInternal and saveJobsInternal.
AddJobTo(jobs, newJob, id, t) ==
    Append(jobs, [newJob EXCEPT !.id = id,
                                !.createdAt = t,
                                !.runCount = IF @ = NULL THEN 0 ELSE @,
                                !.nextRun = NextRunOf(newJob, t)])

\* jobs.splice(index, 1)
RemoveJobFrom(jobs, jobId) ==
    LET index == FindIndex(jobs, jobId)
    IN  [i \in 1..(Len(jobs) - 1) |-> IF i < index THEN jobs[i] ELSE jobs[i + 1]]

\* jobs[index] = {...jobs[index], ...updates}
UpdateJobIn(jobs, jobId, updates) ==
    LET index == FindIndex(jobs, jobId)
        job == jobs[index]
    IN  [jobs EXCEPT ![index] =
            [f \in DOMAIN job |-> IF f \in DOMAIN updates THEN updates[f]
                                  ELSE job[f]]]

\* The body of markJobExecuted between loadJobsInternal and saveJobsInternal.
MarkExecutedIn(jobs, jobId, t) ==
    LET index == FindIndex(jobs, jobId)
        job == jobs[index]
        runCount == (IF job.runCount = NULL THEN 0 ELSE job.runCount) + 1
    IN  [jobs EXCEPT ![index] =
            IF job.maxRuns # NULL /\ runCount >= job.maxRuns
            THEN [job EXCEPT !.lastRun = t, !.runCount = runCount,
                             !.enabled = FALSE, !.nextRun = NULL]
            ELSE [job EXCEPT !.lastRun = t, !.runCount = runCount,
                             !.nextRun = NextRunOf(job, t)]]

\* The filter of getDueJobs.
IsDue(job, t) ==
    /\ job.enabled
    /\ job.nextRun # NULL
    /\ ~(job.maxRuns # NULL
         /\ (IF job.runCount = NULL THEN 0 ELSE job.runCount) >= job.maxRuns)
    /\ job.nextRun <= t

DueJobs(jobs, t) == SelectSeq(jobs, LAMBDA job : IsDue(job, t))

\* A store operation: addJob(newJob), removeJob(jobId), updateJob(jobId,
\* updates) or markJobExecuted(jobId). id is what generateId() returns; the
\* fields an operation does not take hold fillers.
AddJobOp(newJob, id) ==
    [kind |-> "addJob", jobId |-> id, newJob |-> newJob,
     updates |-> [enabled |-> TRUE]]
RemoveJobOp(jobId) ==
    [kind |-> "removeJob", jobId |-> jobId, newJob |-> NewJob(At(0), NULL),
     updates |-> [enabled |-> TRUE]]
UpdateJobOp(jobId, updates) ==
    [kind |-> "updateJob", jobId |-> jobId, newJob |-> NewJob(At(0), NULL),
     updates |-> updates]
MarkJobExecutedOp(jobId) ==
    [kind |-> "markJobExecuted", jobId |-> jobId, newJob |-> NewJob(At(0), NULL),
     updates |-> [enabled |-> TRUE]]

\* Whether the operation saves: all but addJob return early when the job is
\* not in the array they loaded.
Saves(op, jobs) == op.kind = "addJob" \/ FindIndex(jobs, op.jobId) # 0

\* The array the operation passes to saveJobsInternal.
Applied(op, jobs, t) ==
    CASE op.kind = "addJob" -> AddJobTo(jobs, op.newJob, op.jobId, t)
      [] op.kind = "removeJob" -> RemoveJobFrom(jobs, op.jobId)
      [] op.kind = "updateJob" -> UpdateJobIn(jobs, op.jobId, op.updates)
      [] op.kind = "markJobExecuted" -> MarkExecutedIn(jobs, op.jobId, t)

\* The operation run alone, from load to save.
RunAlone(op, jobs, t) == IF Saves(op, jobs) THEN Applied(op, jobs, t) ELSE jobs

-----------------------------------------------------------------------------
(* cron/store: acquireLock, releaseLock, withLock and the files             *)

LOCK_TIMEOUT_MS == 5000
LOCK_MAX_RETRIES == 100

\* Concurrent callers of the store, all in the one process of the bot.
MaxCallers == 2
Callers == 1..MaxCallers

NoLock == [exists |-> FALSE, owner |-> 0, age |-> 0]

\* A lock file left behind by a run of the bot that ended inside withLock.
LeftoverLock == [exists |-> TRUE, owner |-> 0, age |-> LOCK_TIMEOUT_MS + 1]

NoTemp == [exists |-> FALSE, jobs |-> <<>>, complete |-> FALSE]

IdOf(p) ==
    CASE p = 1 -> "j1"
      [] p = 2 -> "j2"
      [] OTHER -> "j3"

\* The stored document at the start: one recurring job that may run twice.
InitialJobs == AddJobTo(<<>>, NewJob(Every(2, 0), 2), "j0", 0)

\* The operations a caller may run.
CronOps(p) ==
    {AddJobOp(NewJob(Every(2, 0), NULL), IdOf(p)),
     RemoveJobOp("j0"),
     UpdateJobOp("j0", [enabled |-> FALSE]),
     MarkJobExecutedOp("j0")}

\* No caller is in the store and no lock or temp file exists.
CronQuiet ==
    /\ lockFile = NoLock
    /\ tempFile = NoTemp
    /\ cronOp = [p \in Callers |-> RemoveJobOp("j0")]
    /\ cronPc = [p \in Callers |-> "idle"]
    /\ cronTry = [p \in Callers |-> 0]
    /\ cronJobs = [p \in Callers |-> <<>>]
    /\ cronFault = FALSE
    /\ cronFileComplete = TRUE
    /\ cronFd = [p \in Callers |-> "none"]

CronIdle == now = 0 /\ cronFile = <<>> /\ CronQuiet

CronInit ==
    /\ now = 0
    /\ lockFile \in {NoLock, LeftoverLock}
    /\ cronFile = InitialJobs
    /\ tempFile = NoTemp
    /\ cronOp \in {f \in [Callers -> UNION {CronOps(p) : p \in Callers}] :
                     \A p \in Callers : f[p] \in CronOps(p)}
    /\ cronPc = [p \in Callers |-> "idle"]
    /\ cronTry = [p \in Callers |-> 0]
    /\ cronJobs = [p \in Callers |-> <<>>]
    /\ cronFault = FALSE
    /\ cronFileComplete = TRUE
    /\ cronFd = [p \in Callers |-> "none"]

\* withLock(fn) is entered: acquireLock starts with i = 0.
CronCall(p) ==
    /\ cronPc[p] = "idle"
    /\ cronPc' = [cronPc EXCEPT ![p] = "create"]
    /\ UNCHANGED <<cronFileComplete, cronFd, cronFault, now, lockFile, cronFile, tempFile, cronOp, cronTry, cronJobs>>
    /\ UNCHANGED notCron

\* fs.writeFile(lockPath, lockId, {flag: "wx"}) inside the loop: it creates the
\* lock file, fails with EEXIST, or fails with another error, upon which
\* acquireLock returns true with no lock file of its own.
CronTryCreate(p, fsError) ==
    /\ cronPc[p] = "create" /\ cronTry[p] < LOCK_MAX_RETRIES
    /\ IF fsError = "other"
       THEN /\ cronPc' = [cronPc EXCEPT ![p] = "load"]
            /\ lockFile' = lockFile
       ELSE IF lockFile.exists
       THEN /\ cronPc' = [cronPc EXCEPT ![p] = "stat"]
            /\ lockFile' = lockFile
       ELSE /\ cronPc' = [cronPc EXCEPT ![p] = "load"]
            /\ lockFile' = [exists |-> TRUE, owner |-> p, age |-> 0]
    /\ cronFault' = (cronFault \/ fsError = "other")
    /\ UNCHANGED <<cronFileComplete, cronFd, now, cronFile, tempFile, cronOp, cronTry, cronJobs>>
    /\ UNCHANGED notCron

\* A faulty end of the loop: the retries start over.
RetriesStartOver(p) ==
    /\ cronPc[p] = "create" /\ cronTry[p] >= LOCK_MAX_RETRIES
    /\ cronTry' = [cronTry EXCEPT ![p] = 0]
    /\ UNCHANGED <<cronFileComplete, cronFd, cronFault, now, lockFile, cronFile,
                   tempFile, cronOp, cronPc, cronJobs>>
    /\ UNCHANGED notCron

\* The loop is over after LOCK_MAX_RETRIES rounds: acquireLock warns and
\* returns false; withLock ignores what it returns and calls fn().
CronGiveUp(p) ==
    /\ cronPc[p] = "create" /\ cronTry[p] >= LOCK_MAX_RETRIES
    /\ cronPc' = [cronPc EXCEPT ![p] = "load"]
    /\ UNCHANGED <<cronFileComplete, cronFd, cronFault, now, lockFile, cronFile, tempFile, cronOp, cronTry, cronJobs>>
    /\ UNCHANGED notCron

\* fs.stat(lockPath) after EEXIST: the file is gone (continue), stale (to be
\* unlinked) or fresh (sleep).
CronStat(p) ==
    /\ cronPc[p] = "stat"
    /\ IF ~lockFile.exists
       THEN /\ cronPc' = [cronPc EXCEPT ![p] = "create"]
            /\ cronTry' = [cronTry EXCEPT ![p] = @ + 1]
       ELSE /\ cronPc' = [cronPc EXCEPT ![p] =
                            IF lockFile.age > LOCK_TIMEOUT_MS THEN "unlink"
                            ELSE "sleep"]
            /\ cronTry' = cronTry
    /\ UNCHANGED <<cronFileComplete, cronFd, cronFault, now, lockFile, cronFile, tempFile, cronOp, cronJobs>>
    /\ UNCHANGED notCron

\* fs.unlink(lockPath).catch(() => {}); continue
CronUnlinkStale(p) ==
    /\ cronPc[p] = "unlink"
    /\ lockFile' = NoLock
    /\ cronPc' = [cronPc EXCEPT ![p] = "create"]
    /\ cronTry' = [cronTry EXCEPT ![p] = @ + 1]
    /\ UNCHANGED <<cronFileComplete, cronFd, cronFault, now, cronFile, tempFile, cronOp, cronJobs>>
    /\ UNCHANGED notCron

\* sleep(LOCK_RETRY_MS) is over.
CronSleepOver(p) ==
    /\ cronPc[p] = "sleep"
    /\ cronPc' = [cronPc EXCEPT ![p] = "create"]
    /\ cronTry' = [cronTry EXCEPT ![p] = @ + 1]
    /\ UNCHANGED <<cronFileComplete, cronFd, cronFault, now, lockFile, cronFile, tempFile, cronOp, cronJobs>>
    /\ UNCHANGED notCron

\* Time passes: Date.now() - stat.mtimeMs reaches LOCK_TIMEOUT_MS, then
\* exceeds it.
LockAges ==
    /\ lockFile.exists /\ lockFile.age <= LOCK_TIMEOUT_MS
    /\ lockFile' = [lockFile EXCEPT !.age = IF @ < LOCK_TIMEOUT_MS
                                            THEN LOCK_TIMEOUT_MS
                                            ELSE LOCK_TIMEOUT_MS + 1]
    /\ UNCHANGED <<cronFileComplete, cronFd, cronFault, now, cronFile, tempFile, cronOp, cronPc, cronTry, cronJobs>>
    /\ UNCHANGED notCron

\* loadJobsInternal: what it returns for the file as it is now. A file that
\* is not a whole document makes JSON.parse throw, which is caught: [].
LoadedJobs(jobs, complete) == IF complete THEN jobs ELSE <<>>

\* fn(): loadJobsInternal and the change of the jobs array; the operations that
\* find nothing to change return without saving.
CronLoad(p) ==
    /\ cronPc[p] = "load"
    /\ LET loaded == LoadedJobs(cronFile, cronFileComplete)
       IN  /\ cronJobs' = [cronJobs EXCEPT ![p] = RunAlone(cronOp[p], loaded, now)]
           /\ cronPc' = [cronPc EXCEPT ![p] =
                           IF Saves(cronOp[p], loaded) THEN "write" ELSE "release"]
    /\ UNCHANGED <<cronFileComplete, cronFd, cronFault, now, lockFile, cronFile,
                   tempFile, cronOp, cronTry>>
    /\ UNCHANGED notCron

\* saveJobsInternal: fs.writeFile(tempPath, ...) opens the temp file, creating
\* or truncating it; the path ends in process.pid, so the callers share it.
CronOpenTemp(p) ==
    /\ cronPc[p] = "write"
    /\ tempFile' = [exists |-> TRUE, jobs |-> <<>>, complete |-> FALSE]
    /\ cronFd' = [cronFd EXCEPT ![p] = "temp"]
    /\ cronPc' = [cronPc EXCEPT ![p] = "writing"]
    /\ UNCHANGED <<cronFileComplete, cronFault, now, lockFile, cronFile, cronOp,
                   cronTry, cronJobs>>
    /\ UNCHANGED notCron

\* saveJobsInternal: fs.writeFile writes the document through its descriptor
\* and closes it. The descriptor names the file it opened, under whatever
\* path a rename has put it since ("orphan": under none any more).
CronWriteTemp(p) ==
    /\ cronPc[p] = "writing"
    /\ tempFile' = IF cronFd[p] = "temp"
                   THEN [exists |-> TRUE, jobs |-> cronJobs[p], complete |-> TRUE]
                   ELSE tempFile
    /\ cronFile' = IF cronFd[p] = "cron" THEN cronJobs[p] ELSE cronFile
    /\ cronFileComplete' = IF cronFd[p] = "cron" THEN TRUE ELSE cronFileComplete
    /\ cronFd' = [cronFd EXCEPT ![p] = "none"]
    /\ cronPc' = [cronPc EXCEPT ![p] = "rename"]
    /\ UNCHANGED <<cronFault, now, lockFile, cronOp, cronTry, cronJobs>>
    /\ UNCHANGED notCron

\* saveJobsInternal: fs.rename(tempPath, filePath) puts the temp file, as it is,
\* under the store's path; with no temp file it fails and the operation
\* throws (after the catch's unlink and the finally of withLock).
CronRename(p) ==
    /\ cronPc[p] = "rename"
    /\ IF tempFile.exists
       THEN /\ cronFile' = tempFile.jobs
            /\ cronFileComplete' = tempFile.complete
            /\ tempFile' = NoTemp
            /\ cronFd' = [q \in Callers |->
                            CASE cronFd[q] = "temp" -> "cron"
                              [] cronFd[q] = "cron" -> "orphan"
                              [] OTHER -> cronFd[q]]
            /\ cronPc' = [cronPc EXCEPT ![p] = "release"]
       ELSE /\ cronPc' = [cronPc EXCEPT ![p] = "releaseThrowing"]
            /\ UNCHANGED <<cronFile, cronFileComplete, tempFile, cronFd>>
    /\ UNCHANGED <<cronFault, now, lockFile, cronOp, cronTry, cronJobs>>
    /\ UNCHANGED notCron

\* finally: releaseLock() unlinks the lock file, whoever created it.
CronRelease(p) ==
    /\ cronPc[p] \in {"release", "releaseThrowing"}
    /\ lockFile' = NoLock
    /\ cronPc' = [cronPc EXCEPT ![p] = IF @ = "release" THEN "done" ELSE "thrown"]
    /\ UNCHANGED <<cronFileComplete, cronFd, cronFault, now, cronFile, tempFile, cronOp, cronTry, cronJobs>>
    /\ UNCHANGED notCron

NextCron ==
    \/ \E p \in Callers : CronCall(p)
    \/ \E p \in Callers, fsError \in {"none", "other"} : CronTryCreate(p, fsError)
    \/ \E p \in Callers : CronGiveUp(p)
    \/ \E p \in Callers : CronStat(p)
    \/ \E p \in Callers : CronUnlinkStale(p)
    \/ \E p \in Callers : CronSleepOver(p)
    \/ LockAges
    \/ \E p \in Callers : CronLoad(p)
    \/ \E p \in Callers : CronOpenTemp(p)
    \/ \E p \in Callers : CronWriteTemp(p)
    \/ \E p \in Callers : CronRename(p)
    \/ \E p \in Callers : CronRelease(p)

-----------------------------------------------------------------------------
(* The scheduler engine: ticks that dispatch the due jobs. Its code is not  *)
(* in the repository; it is modelled as documented: a periodic tick queries *)
(* getDueJobs; for each due job the payload is executed, then               *)
(* markJobExecuted is called; execution does not block the tick. The store  *)
(* operations are the code's (cron/store), each taken as one step.          *)

\* Bounds of the scheduler runs.
MaxTicks == 3
MaxTime == 4

\* The stores the scheduler starts with: a recurring job, a one-shot job,
\* both.
RecurringJob == NewJob(Every(2, 0), NULL)
OneShotJob == NewJob(At(1), 1)

SchedStores ==
    {AddJobTo(<<>>, RecurringJob, "j0", 0),
     AddJobTo(<<>>, OneShotJob, "j1", 0),
     AddJobTo(AddJobTo(<<>>, RecurringJob, "j0", 0), OneShotJob, "j1", 0)}

SchedIdle ==
    /\ ticks = 0
    /\ lastTick = NULL
    /\ running = <<>>
    /\ dispatched = <<>>

SchedInit ==
    /\ now = 0
    /\ cronFile \in SchedStores
    /\ CronQuiet
    /\ SchedIdle

\* A tick, some time after the last one: every job getDueJobs returns is
\* dispatched, its payload starting to execute on its own.
SchedTick ==
    /\ ticks < MaxTicks
    /\ now > lastTick
    /\ ticks' = ticks + 1
    /\ lastTick' = now
    /\ LET due == DueJobs(cronFile, now)
       IN  /\ running' = running \o [i \in 1..Len(due) |-> due[i].id]
           /\ dispatched' = dispatched \o
                 [i \in 1..Len(due) |->
                    [jobId |-> due[i].id, nextRun |-> due[i].nextRun,
                     tick |-> ticks + 1]]
    /\ UNCHANGED <<now, cronFile>>
    /\ UNCHANGED notSched

\* The payload at position i of running has been executed:
\* markJobExecuted(jobId).
SchedPayloadDone(i) ==
    /\ i \in DOMAIN running
    /\ cronFile' = RunAlone(MarkJobExecutedOp(running[i]), cronFile, now)
    /\ running' = [k \in 1..(Len(running) - 1) |->
                      IF k < i THEN running[k] ELSE running[k + 1]]
    /\ UNCHANGED <<now, ticks, lastTick, dispatched>>
    /\ UNCHANGED notSched

\* Time passes.
SchedTimePasses ==
    /\ now < MaxTime
    /\ now' = now + 1
    /\ UNCHANGED <<cronFile, ticks, lastTick, running, dispatched>>
    /\ UNCHANGED notSched

NextSched ==
    \/ SchedTick
    \/ \E i \in 1..(2 * MaxTicks) : SchedPayloadDone(i)
    \/ SchedTimePasses

-----------------------------------------------------------------------------
(* agents/manager: spawnAgent, runAgent, sendAgentResult, cancelAgent, in   *)
(* its two revisions                                                        *)
(*   "plain"  src/src/agents/manager.ts                                     *)
(*   "abort"  src/unnamed/part_011 (AbortController, cancellation checks)   *)

AgentRevisions == {"plain", "abort"}

\* Agents spawned at most.
MaxAgents == 2
AgentIds == 1..MaxAgents

\* An agent that has not been spawned: no entry in the map. An agent that
\* cleanupOldAgents deleted has no entry either (deleted); runAgent still holds
\* the object while its LLM call is in flight.
NoAgent ==
    [status |-> "none", call |-> "none", aborted |-> FALSE, result |-> "",
     error |-> "", createdAt |-> NULL, completedAt |-> NULL, deleted |-> FALSE]

\* spawnAgent: the entry put in the map; runAgent runs up to its await, the
\* LLM call in flight.
SpawnedAgent ==
    [status |-> "running", call |-> "inflight", aborted |-> FALSE, result |-> "",
     error |-> "", createdAt |-> NULL, completedAt |-> NULL, deleted |-> FALSE]

\* textBlock?.text ?? "No response generated."
AgentResultText(hasText) == IF hasText THEN "text" ELSE "No response generated."

\* The message sendAgentResult sends for the agent, <<>> when it sends none.
AgentMessage(id, agent, bot) ==
    IF ~bot THEN <<>>
    ELSE IF agent.status \in {"completed", "failed", "cancelled"}
    THEN <<[agent |-> id, kind |-> agent.status]>>
    ELSE <<>>

\* runAgent after the await, in the try block and in the catch block:
\* if (agent.status === "cancelled") return; (revision "abort" only).
IgnoresOutcome(rev, agent) == rev = "abort" /\ agent.status = "cancelled"

AgentIdle ==
    /\ agentRev = "plain"
    /\ botInstance = FALSE
    /\ agents = [id \in AgentIds |-> NoAgent]
    /\ posted = <<>>
    /\ cancelOk = [id \in AgentIds |-> FALSE]

AgentInit ==
    /\ agentRev \in AgentRevisions
    /\ botInstance \in BOOLEAN
    /\ agents = [id \in AgentIds |-> NoAgent]
    /\ posted = <<>>
    /\ cancelOk = [id \in AgentIds |-> FALSE]

\* Whether the map holds the agent.
InMap(agent) == agent.status # "none" /\ ~agent.deleted

SpawnAgent(id) ==
    /\ \/ agents[id].status = "none"
       \/ agents[id].deleted /\ agents[id].call # "inflight"
    /\ agents' = [agents EXCEPT ![id] = [SpawnedAgent EXCEPT !.createdAt = now]]
    /\ UNCHANGED <<agentRev, botInstance, posted, cancelOk>>
    /\ UNCHANGED notAgent

\* client.messages.create(...) resolves: the rest of the try block.
AgentCallResolves(id, hasText) ==
    /\ agents[id].call = "inflight"
    /\ IF IgnoresOutcome(agentRev, agents[id])
       THEN /\ agents' = [agents EXCEPT ![id].call = "settled"]
            /\ posted' = posted
       ELSE LET done == [agents[id] EXCEPT !.call = "settled",
                                           !.status = "completed",
                                           !.completedAt = now,
                                           !.result = AgentResultText(hasText)]
            IN  /\ agents' = [agents EXCEPT ![id] = done]
                /\ posted' = posted \o AgentMessage(id, done, botInstance)
    /\ UNCHANGED <<agentRev, botInstance, cancelOk>>
    /\ UNCHANGED notAgent

\* client.messages.create(...) rejects (an API error, or the abort): the
\* catch block.
AgentCallRejects(id) ==
    /\ agents[id].call = "inflight"
    /\ IF IgnoresOutcome(agentRev, agents[id])
       THEN /\ agents' = [agents EXCEPT ![id].call = "settled"]
            /\ posted' = posted
       ELSE LET done == [agents[id] EXCEPT !.call = "settled",
                                           !.status = "failed",
                                           !.completedAt = now,
                                           !.error = "error"]
            IN  /\ agents' = [agents EXCEPT ![id] = done]
                /\ posted' = posted \o AgentMessage(id, done, botInstance)
    /\ UNCHANGED <<agentRev, botInstance, cancelOk>>
    /\ UNCHANGED notAgent

\* cancelAgent(id): false for an unknown or a finished agent; else the agent
\* is marked cancelled (and, in revision "abort", its call is aborted) and
\* true is returned.
CancelAgent(id) ==
    /\ IF ~InMap(agents[id]) \/ agents[id].status # "running"
       THEN UNCHANGED <<agents, cancelOk>>
       ELSE /\ agents' = [agents EXCEPT ![id].status = "cancelled",
                                        ![id].completedAt = now,
                                        ![id].aborted = (agentRev = "abort")]
            /\ cancelOk' = [cancelOk EXCEPT ![id] = TRUE]
    /\ UNCHANGED <<agentRev, botInstance, posted>>
    /\ UNCHANGED notAgent

NextAgent ==
    \/ \E id \in AgentIds : SpawnAgent(id)
    \/ \E id \in AgentIds, hasText \in BOOLEAN : AgentCallResolves(id, hasText)
    \/ \E id \in AgentIds : AgentCallRejects(id)
    \/ \E id \in AgentIds : CancelAgent(id)

\* The agent manager with its periodic sweep and the clock.

\* const oneHourAgo = Date.now() - 60 * 60 * 1000
AGENT_MAX_AGE_MS == 60 * 60 * 1000

\* The clock moves by half hours, up to MaxHalfHours of them.
HALF_HOUR_MS == 30 * 60 * 1000
MaxHalfHours == 3

\* Whether cleanupOldAgents deletes the agent at time t. Both revisions delete
\* an agent completed before oneHourAgo; revision "abort" also deletes an
\* agent still running that was created before oneHourAgo.
Reaps(rev, agent, t) ==
    LET oneHourAgo == t - AGENT_MAX_AGE_MS
    IN  \/ agent.completedAt # NULL /\ agent.completedAt < oneHourAgo
        \/ /\ rev = "abort"
           /\ agent.status = "running"
           /\ agent.createdAt < oneHourAgo

\* cleanupOldAgents(), as setInterval runs it: agents.delete(id) for every
\* agent of the map that is to be deleted.
CleanupOldAgents ==
    /\ agents' = [id \in AgentIds |->
                    IF InMap(agents[id]) /\ Reaps(agentRev, agents[id], now)
                    THEN [agents[id] EXCEPT !.deleted = TRUE]
                    ELSE agents[id]]
    /\ UNCHANGED <<agentRev, botInstance, posted, cancelOk>>
    /\ UNCHANGED notAgent

\* Half an hour passes.
AgentTimePasses ==
    /\ now < MaxHalfHours * HALF_HOUR_MS
    /\ now' = now + HALF_HOUR_MS
    /\ UNCHANGED <<coreButNow, otherVars>>

NextCleanup ==
    \/ NextAgent
    \/ CleanupOldAgents
    \/ AgentTimePasses

-----------------------------------------------------------------------------
(* session/state: the current chat id, and the turns that bind and read it. *)
(* setCurrentChatId and getCurrentChatId are the code's, and so is the read *)
(* in buildSystemPrompt after its await of getWorkspace(). The turn handler *)
(* and the tools are not in the repository; they are modelled as            *)
(* documented: each turn binds its chat id for the duration of the turn,    *)
(* tools read it from the binding, turns of distinct conversations overlap. *)

\* Turns in progress at most, and the reads by tools in one turn at most.
MaxTurns == 2
MaxToolReads == 2
Turns == 1..MaxTurns
ChatIds == 1..(MaxTurns + 1)

\* currentChatId = chatId
setCurrentChatId(chatId) == chatId

\* return currentChatId
getCurrentChatId == currentChatId

TurnIdle ==
    /\ currentChatId = NULL
    /\ turnChat = [t \in Turns |-> 1]
    /\ turnPc = [t \in Turns |-> "idle"]
    /\ turnReads = [t \in Turns |-> <<>>]

\* The turns serve distinct conversations.
TurnInit ==
    /\ currentChatId = NULL
    /\ turnChat \in {f \in [Turns -> ChatIds] :
                       \A t, u \in Turns : f[t] = f[u] => t = u}
    /\ turnPc = [t \in Turns |-> "idle"]
    /\ turnReads = [t \in Turns |-> <<>>]

\* The turn starts: setCurrentChatId(chatId), then buildSystemPrompt is
\* called and suspends at `await getWorkspace()`.
TurnBinds(t) ==
    /\ turnPc[t] = "idle"
    /\ currentChatId' = setCurrentChatId(turnChat[t])
    /\ turnPc' = [turnPc EXCEPT ![t] = "workspace"]
    /\ UNCHANGED <<turnChat, turnReads>>
    /\ UNCHANGED notTurn

\* buildSystemPrompt resumes and reads getCurrentChatId() for the pinned
\* context; the prompt built, the turn goes on to the model and its tools.
TurnBuildsPrompt(t) ==
    /\ turnPc[t] = "workspace"
    /\ turnReads' = [turnReads EXCEPT ![t] = Append(@, getCurrentChatId)]
    /\ turnPc' = [turnPc EXCEPT ![t] = "tools"]
    /\ UNCHANGED <<currentChatId, turnChat>>
    /\ UNCHANGED notTurn

\* A tool run for the turn reads getCurrentChatId().
TurnToolReads(t) ==
    /\ turnPc[t] = "tools"
    /\ Len(turnReads[t]) <= MaxToolReads
    /\ turnReads' = [turnReads EXCEPT ![t] = Append(@, getCurrentChatId)]
    /\ UNCHANGED <<currentChatId, turnChat, turnPc>>
    /\ UNCHANGED notTurn

\* The turn ends.
TurnEnds(t) ==
    /\ turnPc[t] = "tools"
    /\ turnPc' = [turnPc EXCEPT ![t] = "done"]
    /\ UNCHANGED <<currentChatId, turnChat, turnReads>>
    /\ UNCHANGED notTurn

NextTurn ==
    \/ \E t \in Turns : TurnBinds(t)
    \/ \E t \in Turns : TurnBuildsPrompt(t)
    \/ \E t \in Turns : TurnToolReads(t)
    \/ \E t \in Turns : TurnEnds(t)

-----------------------------------------------------------------------------
(* chatSmart(): the streaming variant (src/unnamed/part_008, with chat()    *)
(* revision A of the same file)                                             *)

\* Most text chunks one stream delivers.
MaxChunks == 2

\* The text of one chunk of the stream; a text delta may be the empty string.
ChunkTexts == {<<>>, <<"chunk">>}

\* "\n\n(...)": the notice appended to a partial answer.
FAILURE_NOTICE == <<"error while generating the response">>

\* The errors the stream is made to fail with.
StreamErrors ==
    {APIError(429, NULL), APIError(500, NULL), APIError(408, NULL),
     APIError(400, NULL), PlainError({"econnreset"})}

\* The model stubs chatSmart() runs against: at most one round of tools.
SmartScripts == {s \in Scripts : s.want <= 1 /\ s.k <= 1}

NoSmartResult ==
    [kind |-> "none", text |-> <<>>, usedTools |-> FALSE, toolsUsed |-> <<>>,
     error |-> NoError]

SmartValue(text, usedTools, used) ==
    [kind |-> "value", text |-> text, usedTools |-> usedTools,
     toolsUsed |-> used, error |-> NoError]

SmartThrows(error) ==
    [kind |-> "error", text |-> <<>>, usedTools |-> FALSE, toolsUsed |-> <<>>,
     error |-> error]

\* A faulty test that forgets whether a chunk has been delivered.
RetriesWhateverWasStreamed(started, error) ==
    error.cls = "APIError" /\ (error.status = 429 \/ error.status >= 500)

\* The catch block's first test: the error is handed to withRetry.
RetriesPreStream(started, error) ==
    /\ ~started
    /\ error.cls = "APIError"
    /\ (error.status = 429 \/ error.status >= 500)

\* The catch block's second test: the partial answer is returned.
ReturnsPartial(started, acc) == started /\ Len(acc) > 0

\* The error chat() threw: the one its withRetry rethrew.
ChatThrown == IF wr.pc = "thrown" THEN wr.lastError ELSE ThrownValue

\* chat(messages, systemPrompt, modelId, "off") is called by chatSmart().
ChatCalled ==
    /\ wr' = WrStart
    /\ thinkingBudget' = 0
    /\ sentParams' = <<RequestParams(chatRev, "nonstream", 1, 0)>>
    /\ chatPc' = "request"
    /\ iterations' = 0
    /\ requests' = 1
    /\ streamPhase' = "nonstream"
    /\ response' = NoResponse
    /\ apiMessages' = <<[role |-> "user", content |-> <<"hello">>]>>
    /\ toolsUsed' = <<>>
    /\ toolExec' = <<>>
    /\ toolDone' = <<>>
    /\ chatResult' = NoResult
    /\ UNCHANGED <<chatRev, script>>

\* The catch block of chatSmart(), entered with `error`.
SmartCatch(error) ==
    IF RetriesPreStream(streamingStarted, error)
    THEN /\ smartPc' = "retry"
         /\ smartWr' = WrStart
         /\ chatCalls' = chatCalls + 1
         /\ smartResult' = smartResult
         /\ ChatCalled
    ELSE /\ smartPc' = IF ReturnsPartial(streamingStarted, accumulated)
                       THEN "returned" ELSE "thrown"
         /\ smartResult' = IF ReturnsPartial(streamingStarted, accumulated)
                           THEN SmartValue(accumulated \o FAILURE_NOTICE, FALSE, <<>>)
                           ELSE SmartThrows(error)
         /\ UNCHANGED <<smartWr, chatCalls, wr, chatVars>>

SmartIdle ==
    /\ smartPc = "idle"
    /\ streamingStarted = FALSE
    /\ accumulated = <<>>
    /\ delivered = <<>>
    /\ smartWr = WrStart
    /\ chatCalls = 0
    /\ streamErr = NoError
    /\ smartResult = NoSmartResult

\* chatSmart(messages, ...) is called: without a chunk callback it hands over
\* to chat(); with one, the stream is opened.
SmartInit ==
    /\ smartPc \in {"streaming", "plain"}
    /\ streamingStarted = FALSE
    /\ accumulated = <<>>
    /\ delivered = <<>>
    /\ smartWr = WrStart
    /\ chatCalls = IF smartPc = "plain" THEN 1 ELSE 0
    /\ streamErr = NoError
    /\ smartResult = NoSmartResult
    /\ wr = WrStart
    /\ chatRev = "A"
    /\ script \in SmartScripts
    /\ chatPc = IF smartPc = "plain" THEN "request" ELSE "idle"
    /\ iterations = 0
    /\ requests = IF smartPc = "plain" THEN 1 ELSE 0
    /\ streamPhase = "nonstream"
    /\ response = NoResponse
    /\ apiMessages = IF smartPc = "plain"
                     THEN <<[role |-> "user", content |-> <<"hello">>]>>
                     ELSE <<>>
    /\ toolsUsed = <<>>
    /\ toolExec = <<>>
    /\ toolDone = <<>>
    /\ chatResult = NoResult
    /\ thinkingBudget \in IF smartPc = "plain" THEN ThinkingBudgets ELSE {0}
    /\ sentParams = IF smartPc = "plain"
                    THEN <<RequestParams(chatRev, "nonstream", 1, thinkingBudget)>>
                    ELSE <<>>

\* stream.on("text", ...): a chunk arrives and is handed to the callback (whose
\* own failure is caught and ignored).
SmartChunk(text) ==
    /\ smartPc = "streaming"
    /\ Len(delivered) < MaxChunks
    /\ streamingStarted' = TRUE
    /\ accumulated' = accumulated \o text
    /\ delivered' = Append(delivered, [text |-> text, accumulated |-> accumulated \o text])
    /\ UNCHANGED <<smartPc, smartWr, chatCalls, streamErr, smartResult>>
    /\ UNCHANGED <<wr, chatVars>>
    /\ UNCHANGED notSmart

\* The stream is rejected with `error`: the catch block.
SmartStreamFails(error) ==
    /\ smartPc = "streaming"
    /\ streamErr' = error
    /\ SmartCatch(error)
    /\ UNCHANGED <<streamingStarted, accumulated, delivered>>
    /\ UNCHANGED notSmart

\* stream.finalMessage() resolves: on tool_use chat() takes over, otherwise
\* the accumulated text is returned.
SmartStreamEnds ==
    /\ smartPc = "streaming"
    /\ IF ModelResponse(1).stop_reason = "tool_use"
       THEN /\ smartPc' = "fallback"
            /\ chatCalls' = chatCalls + 1
            /\ smartResult' = smartResult
            /\ ChatCalled
       ELSE /\ smartPc' = "returned"
            /\ smartResult' = SmartValue(accumulated, FALSE, <<>>)
            /\ UNCHANGED <<chatCalls, wr, chatVars>>
    /\ UNCHANGED <<streamingStarted, accumulated, delivered, smartWr, streamErr>>
    /\ UNCHANGED notSmart

\* The chat() that chatSmart() awaits has returned.
SmartChatReturns ==
    /\ smartPc \in {"plain", "fallback", "retry"}
    /\ chatPc = "returned"
    /\ smartPc' = "returned"
    /\ smartResult' =
          SmartValue(chatResult.text,
                     CASE smartPc = "plain" -> Len(chatResult.toolsUsed) > 0
                       [] smartPc = "fallback" -> TRUE
                       [] smartPc = "retry" -> FALSE,
                     chatResult.toolsUsed)
    /\ smartWr' = IF smartPc = "retry" THEN WrReturn(smartWr, 1) ELSE smartWr
    /\ UNCHANGED <<streamingStarted, accumulated, delivered, chatCalls, streamErr>>
    /\ UNCHANGED <<wr, chatVars>>
    /\ UNCHANGED notSmart

\* The chat() that chatSmart() awaits has thrown: outside the try block the
\* error leaves chatSmart(); in the try block the catch block runs; under
\* the catch block's withRetry that loop rethrows or sleeps.
SmartChatThrows ==
    /\ smartPc \in {"plain", "fallback", "retry"}
    /\ chatPc = "thrown"
    /\ CASE smartPc = "plain" ->
              /\ smartPc' = "thrown"
              /\ smartResult' = SmartThrows(ChatThrown)
              /\ UNCHANGED <<smartWr, chatCalls, wr, chatVars>>
         [] smartPc = "fallback" -> SmartCatch(ChatThrown)
         [] smartPc = "retry" ->
              LET caught == WrCatch(smartWr, ChatThrown)
              IN  /\ smartWr' = caught
                  /\ smartPc' = IF caught.pc = "thrown" THEN "thrown" ELSE "retrySleep"
                  /\ smartResult' = IF caught.pc = "thrown"
                                    THEN SmartThrows(ChatThrown) ELSE smartResult
                  /\ UNCHANGED <<chatCalls, wr, chatVars>>
    /\ UNCHANGED <<streamingStarted, accumulated, delivered, streamErr>>
    /\ UNCHANGED notSmart

\* The sleep of the catch block's withRetry is over: chat() is called again.
SmartRetryWakes ==
    /\ smartPc = "retrySleep"
    /\ smartWr' = WrWake(smartWr)
    /\ smartPc' = "retry"
    /\ chatCalls' = chatCalls + 1
    /\ ChatCalled
    /\ UNCHANGED <<streamingStarted, accumulated, delivered, streamErr, smartResult>>
    /\ UNCHANGED notSmart

NextSmart ==
    \/ \E text \in ChunkTexts : SmartChunk(text)
    \/ \E error \in StreamErrors : SmartStreamFails(error)
    \/ SmartStreamEnds
    \/ SmartChatReturns
    \/ SmartChatThrows
    \/ SmartRetryWakes
    \/ \E error \in ChatErrors : ChatRequestFails(error)
    \/ ChatRetryWakes
    \/ ChatResponse
    \/ \E i \in 1..MaxTools : ChatToolSettles(i)
    \/ ChatRoundEnds

-----------------------------------------------------------------------------
(* cron/store: the jobs under addJob, updateJob and markJobExecuted, one    *)
(* operation at a time                                                      *)

\* Most jobs in the store, most minutes that pass, and the run count up to
\* which a due job is executed.
MaxJobs == 1
MaxMinutes == 2
MaxRunCount == 2

\* "0 9 * * *", "* * * * *", "*/15 * * * *"
DailyAtNine == <<List({0}), List({9}), Star, Star, Star>>
EveryMinute == <<Star, Star, Star, Star, Star>>
EveryQuarter == <<Step(15), Star, Star, Star, Star>>

\* "* * * *" (four fields) and "60 0 * * *" (minute out of range)
FourFields == <<Star, Star, Star, Star>>
MinuteSixty == <<List({60}), List({0}), Star, Star, Star>>

\* The expressions and time zones jobs are created with.
CreateInputs ==
    {<<DailyAtNine, "Asia/Seoul">>, <<EveryQuarter, "">>, <<FourFields, "">>,
     <<MinuteSixty, "">>}

\* The jobs handed to addJob: a one-shot job, recurring ones with a positive
\* and with a negative interval, and one on a cron schedule.
JobInputs ==
    {NewJob(At(2), NULL),
     NewJob(Every(1, 0), 2),
     NewJob(Every(0 - 1, 0), NULL),
     NewJob(Cron(EveryMinute, ""), NULL)}

\* The updates handed to updateJob.
JobUpdates == {[enabled |-> TRUE], [maxRuns |-> 1]}

\* Whether a field names values and only values of min..max.
IsValidField(field, min, max) ==
    CASE field.kind = "star" -> TRUE
      [] field.kind = "step" -> field.step >= 1 /\ field.step <= max
      [] field.kind = "list" ->
           field.values # {} /\ \A v \in field.values : v >= min /\ v <= max

\* A faulty validation that accepts whatever it is given.
AcceptsAnyExpression(expression) == TRUE

\* isValidCronExpression(expression): five fields, each within its range.
isValidCronExpression(expression) ==
    /\ Len(expression) = 5
    /\ IsValidField(expression[1], 0, 59)
    /\ IsValidField(expression[2], 0, 23)
    /\ IsValidField(expression[3], 1, 31)
    /\ IsValidField(expression[4], 1, 12)
    /\ IsValidField(expression[5], 0, 6)

NoOp ==
    [kind |-> "none", jobId |-> "", at |-> 0, before |-> <<>>, expr |-> NoExpr,
     rejected |-> FALSE, marks |-> 0]

\* The record of an operation; `at` is the time of an addJob or a
\* markJobExecuted, `before` the stored array found by a rejected creation
\* or by a repeated markJobExecuted.
Op(kind, jobId, expr, rejected, marks) ==
    [kind |-> kind, jobId |-> jobId,
     at |-> IF kind \in {"addJob", "markJobExecuted"} THEN now ELSE 0,
     before |-> IF rejected \/ marks = 2 THEN cronFile ELSE <<>>,
     expr |-> expr, rejected |-> rejected, marks |-> marks]

NoRun == [jobId |-> "", marks |-> 0]

JobsIdle == jobsLast = NoOp /\ jobsRun = NoRun

\* generateId(): an id no job has yet.
NextId(jobs) == IdOf(Len(jobs) + 1)

\* addJob(newJob)
JobsAdd(newJob) ==
    /\ Len(cronFile) < MaxJobs
    /\ cronFile' = RunAlone(AddJobOp(newJob, NextId(cronFile)), cronFile, now)
    /\ jobsLast' = Op("addJob", NextId(cronFile), NoExpr, FALSE, 0)
    /\ UNCHANGED <<now, jobsRun>>
    /\ UNCHANGED notJobs

\* The creation of a job on a cron expression: an invalid expression is
\* rejected, a valid one is handed to addJob.
JobsCreate(expression, timezone) ==
    /\ IF isValidCronExpression(expression)
       THEN /\ Len(cronFile) < MaxJobs
            /\ cronFile' = RunAlone(AddJobOp(NewExprJob(expression, timezone),
                                             NextId(cronFile)), cronFile, now)
            /\ jobsLast' = Op("create", NextId(cronFile), expression, FALSE, 0)
       ELSE /\ cronFile' = cronFile
            /\ jobsLast' = Op("create", "", expression, TRUE, 0)
    /\ UNCHANGED <<now, jobsRun>>
    /\ UNCHANGED notJobs

\* updateJob(jobId, updates)
JobsUpdate(jobId, updates) ==
    /\ FindIndex(cronFile, jobId) # 0
    /\ cronFile' = RunAlone(UpdateJobOp(jobId, updates), cronFile, now)
    /\ jobsLast' = Op("updateJob", jobId, NoExpr, FALSE, 0)
    /\ UNCHANGED <<now, jobsRun>>
    /\ UNCHANGED notJobs

\* A job that getDueJobs returns is executed.
JobsExecute(jobId) ==
    /\ jobsRun = NoRun
    /\ \E i \in DOMAIN cronFile :
          /\ cronFile[i].id = jobId
          /\ IsDue(cronFile[i], now)
          /\ cronFile[i].runCount < MaxRunCount
    /\ jobsRun' = [jobId |-> jobId, marks |-> 0]
    /\ UNCHANGED <<now, cronFile, jobsLast>>
    /\ UNCHANGED notJobs

\* markJobExecuted(jobId), for the first or for the second time for the
\* execution.
JobsMarkExecuted ==
    /\ jobsRun # NoRun
    /\ jobsRun.marks < 2
    /\ cronFile' = RunAlone(MarkJobExecutedOp(jobsRun.jobId), cronFile, now)
    /\ jobsLast' = Op("markJobExecuted", jobsRun.jobId, NoExpr, FALSE,
                      jobsRun.marks + 1)
    /\ jobsRun' = [jobsRun EXCEPT !.marks = @ + 1]
    /\ UNCHANGED now
    /\ UNCHANGED notJobs

\* The execution has been marked and is over.
JobsExecutionOver ==
    /\ jobsRun.marks >= 1
    /\ jobsRun' = NoRun
    /\ UNCHANGED <<now, cronFile, jobsLast>>
    /\ UNCHANGED notJobs

\* A minute passes.
JobsTimePasses ==
    /\ now < MaxMinutes
    /\ now' = now + 1
    /\ UNCHANGED <<cronFile, jobsLast, jobsRun>>
    /\ UNCHANGED notJobs

NextJobs ==
    \/ \E newJob \in JobInputs : JobsAdd(newJob)
    \/ \E input \in CreateInputs : JobsCreate(input[1], input[2])
    \/ \E jobId \in {IdOf(i) : i \in 1..MaxJobs}, updates \in JobUpdates :
          JobsUpdate(jobId, updates)
    \/ \E jobId \in {IdOf(i) : i \in 1..MaxJobs} : JobsExecute(jobId)
    \/ JobsMarkExecuted
    \/ JobsExecutionOver
    \/ JobsTimePasses

-----------------------------------------------------------------------------
(* cron/store: calculateCronNextRun called on its own                       *)

\* Most calls in a row, each at the time the call before it returned.
MaxCronCalls == 2

\* "0 9 * * 1-5", "0 20 * * *" and "30 8 1 2 *"
WeekdaysAtNine == <<List({0}), List({9}), Star, Star, List(1..5)>>
DailyAtTwenty == <<List({0}), List({20}), Star, Star, Star>>
FebruaryFirst == <<List({30}), List({8}), List({1}), List({2}), Star>>

CronExpressions ==
    {DailyAtNine, WeekdaysAtNine, DailyAtTwenty, EveryQuarter, FebruaryFirst}

CronTimezones == {"", "Asia/Seoul"}
HostTimezones == {"UTC", "Asia/Seoul"}

\* The minute of the d-th day after 1 January 1970, at hour:minute UTC.
UtcTime(d, hour, minute) == d * MINUTES_PER_DAY + hour * 60 + minute

\* The times of the calls: Thursday 1 January 23:00, Friday 2 January 01:00,
\* 08:00 and 10:00, Saturday 31 January 05:50 and 10:00 (UTC); in Seoul these
\* are Friday 08:00, 10:00, 17:00 and 19:00, Saturday 14:50 and 19:00.
CallTimes ==
    {UtcTime(0, 23, 0), UtcTime(1, 1, 0), UtcTime(1, 8, 0), UtcTime(1, 10, 0),
     UtcTime(30, 5, 50), UtcTime(30, 10, 0)}

NoCronCall ==
    [pc |-> "idle", expression |-> NoExpr, timezone |-> "", host |-> "UTC",
     at |-> 0, nextRun |-> NULL, calls |-> 0]

CronCallIdle == cronCall = NoCronCall

\* calculateCronNextRun(expression, timezone) is called.
CronCallInit ==
    \E expression \in CronExpressions, timezone \in CronTimezones,
       host \in HostTimezones, at \in CallTimes :
        cronCall = [pc |-> "called", expression |-> expression,
                    timezone |-> timezone, host |-> host, at |-> at,
                    nextRun |-> NULL, calls |-> 1]

\* The call returns.
CronCallReturns ==
    /\ cronCall.pc = "called"
    /\ cronCall' =
          [cronCall EXCEPT
              !.pc = "returned",
              !.nextRun = CronNextRunOn(cronCall.host, cronCall.expression,
                                        cronCall.timezone, cronCall.at)]
    /\ UNCHANGED notCronCall

\* The time returned has come (the job runs) and the next run is asked for.
CronCalledAgain ==
    /\ cronCall.pc = "returned"
    /\ cronCall.nextRun # NULL
    /\ cronCall.calls < MaxCronCalls
    /\ cronCall' = [cronCall EXCEPT !.pc = "called", !.at = cronCall.nextRun,
                                    !.nextRun = NULL, !.calls = @ + 1]
    /\ UNCHANGED notCronCall

NextCronCall ==
    \/ CronCallReturns
    \/ CronCalledAgain

-----------------------------------------------------------------------------
(* cron/store: withLock under fair scheduling                               *)

\* A lock file left behind a moment ago: it is not stale yet.
FreshLeftoverLock == [exists |-> TRUE, owner |-> 0, age |-> 0]

\* The callers' operations: each one adds a job of its own.
LockOps == [p \in Callers |-> AddJobOp(NewJob(Every(2, 0), NULL), IdOf(p))]

\* The store before the operations: no lock file or a stale one with every
\* caller still to come, or a fresh lock file left behind with one caller to
\* come (the operations of the others have ended).
LockInit ==
    /\ now = 0
    /\ \/ /\ lockFile \in {NoLock, LeftoverLock}
          /\ cronPc = [p \in Callers |-> "idle"]
       \/ /\ lockFile = FreshLeftoverLock
          /\ cronPc = [p \in Callers |-> IF p = 1 THEN "idle" ELSE "done"]
    /\ cronFile = InitialJobs
    /\ tempFile = NoTemp
    /\ cronOp = LockOps
    /\ cronTry = [p \in Callers |-> 0]
    /\ cronJobs = [p \in Callers |-> <<>>]
    /\ cronFault = FALSE
    /\ cronFileComplete = TRUE
    /\ cronFd = [p \in Callers |-> "none"]

\* The steps of caller p once it is inside withLock: every await of it
\* settles and its continuation is run.
CronStep(p) ==
    \/ \E fsError \in {"none", "other"} : CronTryCreate(p, fsError)
    \/ CronGiveUp(p)
    \/ CronStat(p)
    \/ CronUnlinkStale(p)
    \/ CronSleepOver(p)
    \/ CronLoad(p)
    \/ CronOpenTemp(p)
    \/ CronWriteTemp(p)
    \/ CronRename(p)
    \/ CronRelease(p)

-----------------------------------------------------------------------------
(* session/state: getSession, cleanupSessions and the four exported calls   *)
(* on a conversation's session. The map is the sequence of its entries in   *)
(* insertion order, the order in which a Map is iterated.                   *)

MAX_SESSIONS == 100
SESSION_TTL_MS == 24 * 60 * 60 * 1000

\* The conversations without a session at the start, the ticks of the clock
\* (of 1 ms) after the start, and the calls made.
MaxSessionChats == 1
MaxSessionTicks == 2
MaxSessionCalls == 2

\* The conversation of the j-th session the map holds at the start.
BackgroundChat(j) == MaxSessionChats + j

\* The conversations the calls are made for: the new ones and that of the
\* first session of the map.
SessionChats == 1..BackgroundChat(1)

\* The model setModel is called with.
ModelIds == {"opus"}

\* const session = {history: [], model: "sonnet", lastAccessedAt: now}
NewSession(chatId, t) ==
    [chatId |-> chatId, history |-> <<>>, model |-> "sonnet",
     lastAccessedAt |-> t]

\* The history of a conversation that has taken place: the callers of
\* getHistory push their messages onto the array it returns.
PastHistory == <<"message">>

\* The map at the start: n sessions of conversations that have taken place,
\* all last accessed at 0 ("same") or by turns at 1 and at 0 ("alternate").
InitialSessions(n, pattern) ==
    [j \in 1..n |->
        [NewSession(BackgroundChat(j),
                    IF pattern = "alternate" THEN j % 2 ELSE 0)
            EXCEPT !.history = PastHistory]]

\* The clock at the start: the sessions of the map are about to expire.
SessionStart == SESSION_TTL_MS - 1

\* sessions.get(chatId): the index of the entry, 0 when there is none.
SessionIndex(entries, chatId) ==
    IF \E i \in DOMAIN entries : entries[i].chatId = chatId
    THEN CHOOSE i \in DOMAIN entries : entries[i].chatId = chatId
    ELSE 0

\* sessions.delete(chatId) for the entry at index i.
DeleteAt(entries, i) ==
    [k \in 1..(Len(entries) - 1) |-> IF k < i THEN entries[k] ELSE entries[k + 1]]

\* cleanupSessions, step 1: the sessions last accessed more than
\* SESSION_TTL_MS ago are deleted.
WithoutExpired(entries, t) ==
    SelectSeq(entries, LAMBDA s : ~(t - s.lastAccessedAt > SESSION_TTL_MS))

\* The first entry of entries.sort((a, b) => a[1].lastAccessedAt -
\* b[1].lastAccessedAt): the sort is stable, so it is the first one in
\* insertion order among the least recently accessed.
OldestIndex(entries) ==
    LET stamps == {entries[i].lastAccessedAt : i \in DOMAIN entries}
        oldest == CHOOSE t \in stamps : \A u \in stamps : t <= u
    IN  CHOOSE i \in DOMAIN entries :
            /\ entries[i].lastAccessedAt = oldest
            /\ \A k \in 1..(i - 1) : entries[k].lastAccessedAt # oldest

\* A faulty eviction: the first k entries in insertion order.
RemoveFirstInserted(entries, k) == SubSeq(entries, k + 1, Len(entries))

\* The entries of the sorted array's slice(0, k) are deleted.
RECURSIVE RemoveOldest(_, _)
RemoveOldest(entries, k) ==
    IF k <= 0 \/ entries = <<>>
    THEN entries
    ELSE RemoveOldest(DeleteAt(entries, OldestIndex(entries)), k - 1)

\* A faulty cleanup that only deletes the expired sessions.
ExpiresOnly(entries, t) == WithoutExpired(entries, t)

\* cleanupSessions() at time t.
cleanupSessions(entries, t) ==
    LET kept == WithoutExpired(entries, t)
    IN  IF Len(kept) >= MAX_SESSIONS
        THEN RemoveOldest(kept, Len(kept) - MAX_SESSIONS + 1)
        ELSE kept

\* getSession(chatId) at time t: the map after it.
getSession(entries, chatId, t) ==
    LET i == SessionIndex(entries, chatId)
    IN  IF i # 0
        THEN [entries EXCEPT ![i].lastAccessedAt = t]
        ELSE Append(cleanupSessions(entries, t), NewSession(chatId, t))

\* The record of a call: what it was, the size of the map before it, the
\* sessions getSession evicted (those of the map before the call that the map
\* after it does not hold), and the number of calls so far.
NoSessionOp ==
    [kind |-> "none", chatId |-> 0, sizeBefore |-> 0, isNew |-> FALSE,
     evicted |-> <<>>, calls |-> 0]

SessionOp(kind, chatId, after) ==
    [kind |-> kind, chatId |-> chatId, sizeBefore |-> Len(sessions),
     isNew |-> SessionIndex(sessions, chatId) = 0,
     evicted |-> IF kind = "clearHistory" THEN <<>>
                 ELSE SelectSeq(sessions,
                                LAMBDA s : SessionIndex(after, s.chatId) = 0),
     calls |-> sessionOp.calls + 1]

SessionIdle == sessions = <<>> /\ sessionOp = NoSessionOp

SessionInit ==
    /\ now = SessionStart
    /\ \E n \in {0, MAX_SESSIONS - 1, MAX_SESSIONS},
          pattern \in {"same", "alternate"} :
          sessions = InitialSessions(n, pattern)
    /\ sessionOp = NoSessionOp

\* getHistory(chatId)
GetHistory(chatId) ==
    /\ sessionOp.calls < MaxSessionCalls
    /\ sessions' = getSession(sessions, chatId, now)
    /\ sessionOp' = SessionOp("getHistory", chatId, sessions')
    /\ UNCHANGED <<now, notSession>>

\* getModel(chatId)
GetModel(chatId) ==
    /\ sessionOp.calls < MaxSessionCalls
    /\ sessions' = getSession(sessions, chatId, now)
    /\ sessionOp' = SessionOp("getModel", chatId, sessions')
    /\ UNCHANGED <<now, notSession>>

\* setModel(chatId, modelId)
SetModel(chatId, modelId) ==
    /\ sessionOp.calls < MaxSessionCalls
    /\ LET got == getSession(sessions, chatId, now)
       IN  sessions' = [got EXCEPT ![SessionIndex(got, chatId)].model = modelId]
    /\ sessionOp' = SessionOp("setModel", chatId, sessions')
    /\ UNCHANGED <<now, notSession>>

\* clearHistory(chatId): sessions.delete(chatId)
ClearHistory(chatId) ==
    /\ sessionOp.calls < MaxSessionCalls
    /\ LET i == SessionIndex(sessions, chatId)
       IN  sessions' = IF i # 0 THEN DeleteAt(sessions, i) ELSE sessions
    /\ sessionOp' = SessionOp("clearHistory", chatId, sessions')
    /\ UNCHANGED <<now, notSession>>

\* A millisecond passes.
SessionTimePasses ==
    /\ now < SessionStart + MaxSessionTicks
    /\ now' = now + 1
    /\ UNCHANGED <<sessionVars, notSession>>

NextSession ==
    \/ \E chatId \in SessionChats : GetHistory(chatId)
    \/ \E chatId \in SessionChats : GetModel(chatId)
    \/ \E chatId \in SessionChats, modelId \in ModelIds : SetModel(chatId, modelId)
    \/ \E chatId \in SessionChats : ClearHistory(chatId)
    \/ SessionTimePasses

-----------------------------------------------------------------------------
(* warmup(): src/src/warmup.ts                                              *)

MaxWarmupCallers == 3
MaxWarmupCalls == 4

WarmupCallers == 1..MaxWarmupCallers

\* The three preloads of doWarmup, in the order of its array.
WarmupTasks == {"embedding", "workspace", "memory"}

\* No WarmupResult (null); the runs are numbered from 1.
NoWarmupResult == [run |-> 0, success |-> FALSE, errors |-> {}]

\* A doWarmup run: the state of its preloads and, once it has returned, its
\* result (the timings are left out: they are differences of Date.now()).
NewWarmupRun == [tasks |-> [k \in WarmupTasks |-> "pending"], result |-> NoWarmupResult]

WarmupResultOf(r, tasks) ==
    [run |-> r,
     success |-> \A k \in WarmupTasks : tasks[k] = "fulfilled",
     errors |-> {k \in WarmupTasks : tasks[k] = "rejected"}]

NoWarmupCall == [pc |-> "idle", promise |-> NULL, got |-> NoWarmupResult, how |-> "none",
                 calls |-> 0]

WarmupIdle ==
    /\ warmupComplete = FALSE
    /\ warmupResult = NoWarmupResult
    /\ warmupPromise = NULL
    /\ warmupRuns = <<>>
    /\ warmupCaller = [c \in WarmupCallers |-> NoWarmupCall]

WarmupInit == WarmupIdle

\* if (warmupComplete && warmupResult)
WarmupIsCached(complete, result) == complete /\ result # NoWarmupResult

\* A warmup that does not look at warmupPromise.
NeverInFlight(promise) == FALSE

\* if (warmupPromise)
WarmupInFlight(promise) == promise # NULL

WarmupCallsMade ==
    LET RECURSIVE Sum(_)
        Sum(c) == IF c = 0 THEN 0 ELSE warmupCaller[c].calls + Sum(c - 1)
    IN Sum(MaxWarmupCallers)

\* warmup(), up to its return or its await: the cached result, the promise in
\* flight, or a new doWarmup, which starts the three preloads before warmup
\* goes on.
WarmupCall(c) ==
    /\ warmupCaller[c].pc \in {"idle", "returned"}
    /\ WarmupCallsMade < MaxWarmupCalls
    /\ LET calls == warmupCaller[c].calls + 1 IN
       IF WarmupIsCached(warmupComplete, warmupResult)
       THEN /\ warmupCaller' = [warmupCaller EXCEPT ![c] =
                   [pc |-> "returned", promise |-> NULL, got |-> warmupResult,
                    how |-> "cached", calls |-> calls]]
            /\ UNCHANGED <<warmupPromise, warmupRuns>>
       ELSE IF WarmupInFlight(warmupPromise)
       THEN /\ warmupCaller' = [warmupCaller EXCEPT ![c] =
                   [pc |-> "sharing", promise |-> warmupPromise, got |-> NoWarmupResult,
                    how |-> "shared", calls |-> calls]]
            /\ UNCHANGED <<warmupPromise, warmupRuns>>
       ELSE /\ warmupRuns' = Append(warmupRuns, NewWarmupRun)
            /\ warmupPromise' = Len(warmupRuns) + 1
            /\ warmupCaller' = [warmupCaller EXCEPT ![c] =
                   [pc |-> "awaiting", promise |-> Len(warmupRuns) + 1,
                    got |-> NoWarmupResult, how |-> "started", calls |-> calls]]
    /\ UNCHANGED <<warmupComplete, warmupResult>>
    /\ UNCHANGED notWarmup

\* One preload of a run settles.
WarmupTaskSettles(r, k, outcome) ==
    /\ r \in 1..Len(warmupRuns)
    /\ warmupRuns[r].tasks[k] = "pending"
    /\ warmupRuns' = [warmupRuns EXCEPT ![r].tasks[k] = outcome]
    /\ UNCHANGED <<warmupComplete, warmupResult, warmupPromise, warmupCaller>>
    /\ UNCHANGED notWarmup

\* doWarmup after Promise.allSettled: it collects the errors and returns.
DoWarmupReturns(r) ==
    /\ r \in 1..Len(warmupRuns)
    /\ warmupRuns[r].result = NoWarmupResult
    /\ \A k \in WarmupTasks : warmupRuns[r].tasks[k] # "pending"
    /\ warmupRuns' = [warmupRuns EXCEPT
                         ![r].result = WarmupResultOf(r, warmupRuns[r].tasks)]
    /\ UNCHANGED <<warmupComplete, warmupResult, warmupPromise, warmupCaller>>
    /\ UNCHANGED notWarmup

\* warmup() after its await: the result is kept, and the finally block clears
\* the promise.
WarmupResumes(c) ==
    /\ warmupCaller[c].pc = "awaiting"
    /\ warmupRuns[warmupCaller[c].promise].result # NoWarmupResult
    /\ warmupResult' = warmupRuns[warmupCaller[c].promise].result
    /\ warmupComplete' = TRUE
    /\ warmupPromise' = NULL
    /\ warmupCaller' = [warmupCaller EXCEPT ![c].pc = "returned",
                           ![c].got = warmupRuns[warmupCaller[c].promise].result]
    /\ UNCHANGED warmupRuns
    /\ UNCHANGED notWarmup

\* The promise a caller was handed settles for that caller.
WarmupSharedSettles(c) ==
    /\ warmupCaller[c].pc = "sharing"
    /\ warmupRuns[warmupCaller[c].promise].result # NoWarmupResult
    /\ warmupCaller' = [warmupCaller EXCEPT ![c].pc = "returned",
                           ![c].got = warmupRuns[warmupCaller[c].promise].result]
    /\ UNCHANGED <<warmupComplete, warmupResult, warmupPromise, warmupRuns>>
    /\ UNCHANGED notWarmup

NextWarmup ==
    \/ \E c \in WarmupCallers : WarmupCall(c)
    \/ \E r \in 1..MaxWarmupCalls, k \in WarmupTasks,
          outcome \in {"fulfilled", "rejected"} : WarmupTaskSettles(r, k, outcome)
    \/ \E r \in 1..MaxWarmupCalls : DoWarmupReturns(r)
    \/ \E c \in WarmupCallers : WarmupResumes(c)
    \/ \E c \in WarmupCallers : WarmupSharedSettles(c)

-----------------------------------------------------------------------------
(* getEmbeddingPipeline(): src/src/memory/embeddings.ts                     *)

MaxPipelineCallers == 3
MaxPipelineCalls == 4

PipelineCallers == 1..MaxPipelineCallers

NoPipelineCall == [pc |-> "idle", promise |-> NULL, got |-> NULL, how |-> "none",
                   calls |-> 0]

PipelineIdle ==
    /\ embeddingPipeline = NULL
    /\ isLoading = FALSE
    /\ loadingPromise = NULL
    /\ pipelineLoads = <<>>
    /\ pipelineCaller = [c \in PipelineCallers |-> NoPipelineCall]

PipelineInit == PipelineIdle

\* A getEmbeddingPipeline without the sentinel.
NoSentinel(loading, promise) == FALSE

\* if (isLoading && loadingPromise)
LoadInFlight(loading, promise) == loading /\ promise # NULL

PipelineCallsMade ==
    LET RECURSIVE Sum(_)
        Sum(c) == IF c = 0 THEN 0 ELSE pipelineCaller[c].calls + Sum(c - 1)
    IN Sum(MaxPipelineCallers)

\* getEmbeddingPipeline(), up to its return or its await.
PipelineCall(c) ==
    /\ pipelineCaller[c].pc \in {"idle", "returned", "thrown"}
    /\ PipelineCallsMade < MaxPipelineCalls
    /\ LET calls == pipelineCaller[c].calls + 1 IN
       IF embeddingPipeline # NULL
       THEN /\ pipelineCaller' = [pipelineCaller EXCEPT ![c] =
                   [pc |-> "returned", promise |-> NULL, got |-> embeddingPipeline,
                    how |-> "cached", calls |-> calls]]
            /\ UNCHANGED <<isLoading, loadingPromise, pipelineLoads>>
       ELSE IF LoadInFlight(isLoading, loadingPromise)
       THEN /\ pipelineCaller' = [pipelineCaller EXCEPT ![c] =
                   [pc |-> "sharing", promise |-> loadingPromise, got |-> NULL,
                    how |-> "shared", calls |-> calls]]
            /\ UNCHANGED <<isLoading, loadingPromise, pipelineLoads>>
       ELSE /\ isLoading' = TRUE
            /\ pipelineLoads' = Append(pipelineLoads, "pending")
            /\ loadingPromise' = Len(pipelineLoads) + 1
            /\ pipelineCaller' = [pipelineCaller EXCEPT ![c] =
                   [pc |-> "awaiting", promise |-> Len(pipelineLoads) + 1,
                    got |-> NULL, how |-> "started", calls |-> calls]]
    /\ UNCHANGED embeddingPipeline
    /\ UNCHANGED notPipeline

\* The promise of pipeline(...) settles: the model is loaded, or the load fails.
PipelineLoadSettles(l, outcome) ==
    /\ l \in 1..Len(pipelineLoads)
    /\ pipelineLoads[l] = "pending"
    /\ pipelineLoads' = [pipelineLoads EXCEPT ![l] = outcome]
    /\ UNCHANGED <<embeddingPipeline, isLoading, loadingPromise, pipelineCaller>>
    /\ UNCHANGED notPipeline

\* getEmbeddingPipeline() after its await, with the finally block.
PipelineResumes(c) ==
    /\ pipelineCaller[c].pc = "awaiting"
    /\ LET l == pipelineCaller[c].promise IN
       /\ pipelineLoads[l] # "pending"
       /\ IF pipelineLoads[l] = "resolved"
          THEN /\ embeddingPipeline' = l
               /\ pipelineCaller' = [pipelineCaller EXCEPT ![c].pc = "returned",
                                                         ![c].got = l]
          ELSE /\ UNCHANGED embeddingPipeline
               /\ pipelineCaller' = [pipelineCaller EXCEPT ![c].pc = "thrown"]
    /\ isLoading' = FALSE
    /\ UNCHANGED <<loadingPromise, pipelineLoads>>
    /\ UNCHANGED notPipeline

\* The promise a caller was handed settles for that caller.
PipelineSharedSettles(c) ==
    /\ pipelineCaller[c].pc = "sharing"
    /\ LET l == pipelineCaller[c].promise IN
       /\ pipelineLoads[l] # "pending"
       /\ pipelineCaller' =
              IF pipelineLoads[l] = "resolved"
              THEN [pipelineCaller EXCEPT ![c].pc = "returned", ![c].got = l]
              ELSE [pipelineCaller EXCEPT ![c].pc = "thrown"]
    /\ UNCHANGED <<embeddingPipeline, isLoading, loadingPromise, pipelineLoads>>
    /\ UNCHANGED notPipeline

NextPipeline ==
    \/ \E c \in PipelineCallers : PipelineCall(c)
    \/ \E l \in 1..MaxPipelineCalls, outcome \in {"resolved", "rejected"} :
          PipelineLoadSettles(l, outcome)
    \/ \E c \in PipelineCallers : PipelineResumes(c)
    \/ \E c \in PipelineCallers : PipelineSharedSettles(c)

-----------------------------------------------------------------------------
(* embed(), embedBatch() and the query-embedding cache:                     *)
(* src/src/memory/embeddings.ts. A text is its content up to 512 characters *)
(* (key; 0: nothing but white space), whether white space surrounds it      *)
(* (pad) and what follows its 512th character (tail).                       *)

QUERY_CACHE_MAX_SIZE == 100

MaxEmbedCalls == 2
MaxEmbedTicks == 1
MaxNewKeys == 1

\* The two activities that embed texts at the same time: a search, which
\* embeds the query, and the indexing of the memory files.
EmbedCallers == {"search", "index"}

\* The key of the j-th entry the cache holds at the start.
BackgroundKey(j) == MaxNewKeys + j

\* A text, and null in the place of a text.
Text(key, pad, tail) == [key |-> key, pad |-> pad, tail |-> tail]
NullText == Text(NULL, FALSE, 0)

\* The texts of the calls: null, white space, the new texts, the texts of the
\* first two entries of the cache, and the first new text padded and longer
\* than 512 characters.
EmbedTexts ==
    {NullText, Text(0, TRUE, 0), Text(1, TRUE, 0), Text(1, FALSE, 1)}
    \cup {Text(key, FALSE, 0) : key \in 1..BackgroundKey(2)}

\* text.trim().slice(0, 512)
CleanText(text) == text.key

\* The vector the model gives for a clean text.
EmbeddingOf(clean) == clean

\* The cache at the start: n entries, all last used at 0 ("same") or by turns
\* at 1 and at 0 ("alternate").
InitialQueryCache(n, pattern) ==
    [j \in 1..n |->
        [key |-> BackgroundKey(j), embedding |-> EmbeddingOf(BackgroundKey(j)),
         lastUsed |-> IF pattern = "alternate" THEN j % 2 ELSE 0]]

EmbedStart == 1

\* The index of the entry of a key, 0 when there is none.
CacheIndex(cache, clean) ==
    IF \E i \in DOMAIN cache : cache[i].key = clean
    THEN CHOOSE i \in DOMAIN cache : cache[i].key = clean
    ELSE 0

\* if (useCache) { const cached = queryEmbeddingCache.get(cleanText) ... }:
\* the index of the entry that is returned, 0 when embed goes on to the model.
CacheHit(cache, clean, useCache) ==
    IF useCache THEN CacheIndex(cache, clean) ELSE 0

\* The first entry of entries.sort((a, b) => a[1].lastUsed - b[1].lastUsed).
LeastUsedIndex(cache) ==
    LET stamps == {cache[i].lastUsed : i \in DOMAIN cache}
        oldest == CHOOSE t \in stamps : \A u \in stamps : t <= u
    IN  CHOOSE i \in DOMAIN cache :
            /\ cache[i].lastUsed = oldest
            /\ \A k \in 1..(i - 1) : cache[k].lastUsed # oldest

\* A faulty pruning: the first k entries in insertion order.
RemoveFirstCached(cache, k) == SubSeq(cache, k + 1, Len(cache))

\* The entries of the sorted array's slice(0, k) are deleted.
RECURSIVE RemoveLeastUsed(_, _)
RemoveLeastUsed(cache, k) ==
    IF k <= 0 \/ cache = <<>>
    THEN cache
    ELSE RemoveLeastUsed(DeleteAt(cache, LeastUsedIndex(cache)), k - 1)

pruneQueryCache(cache) ==
    IF Len(cache) <= QUERY_CACHE_MAX_SIZE
    THEN cache
    ELSE RemoveLeastUsed(cache, Len(cache) - QUERY_CACHE_MAX_SIZE)

\* queryEmbeddingCache.set(cleanText, {embedding, lastUsed: Date.now()}): an
\* entry of the same key is replaced where it is.
CacheSet(cache, clean, embedding, t) ==
    LET i == CacheIndex(cache, clean)
        entry == [key |-> clean, embedding |-> embedding, lastUsed |-> t]
    IN  IF i # 0 THEN [cache EXCEPT ![i] = entry] ELSE Append(cache, entry)

\* if (useCache) { queryEmbeddingCache.set(...); pruneQueryCache(); }
CacheStore(cache, clean, embedding, t, useCache) ==
    IF useCache THEN pruneQueryCache(CacheSet(cache, clean, embedding, t))
    ELSE cache

\* A call in progress: the clean texts it works on (0: null or empty, no model
\* needed); a call that is over keeps what it was and how it ended.
NoEmbedCall == [pc |-> "idle", kind |-> "none", cleans |-> <<>>, useCache |-> FALSE]

EmbedCallOver(kind, pc) == [NoEmbedCall EXCEPT !.pc = pc, !.kind = kind]

NoEmbedOp == [sizeBefore |-> 0, evicted |-> <<>>, calls |-> 0]

EmbedIdle ==
    /\ queryEmbeddingCache = <<>>
    /\ embedCaller = [c \in EmbedCallers |-> NoEmbedCall]
    /\ embedOp = NoEmbedOp

EmbedInit ==
    /\ now = EmbedStart
    /\ \E n \in {0, QUERY_CACHE_MAX_SIZE - 1, QUERY_CACHE_MAX_SIZE},
          pattern \in {"same", "alternate"} :
          queryEmbeddingCache = InitialQueryCache(n, pattern)
    /\ embedCaller = [c \in EmbedCallers |-> NoEmbedCall]
    /\ embedOp = NoEmbedOp

\* The model is loaded: getEmbeddingPipeline returns embeddingPipeline.
PipelineLoaded ==
    /\ embeddingPipeline = 1
    /\ isLoading = FALSE
    /\ loadingPromise = 1
    /\ pipelineLoads = <<"resolved">>
    /\ pipelineCaller = [c \in PipelineCallers |-> NoPipelineCall]

\* if (text == null) ...; const cleanText = ...; if (!cleanText) ...: the
\* clean text embed goes on with, 0 when it returns the zero vector.
CleanOrNone(text) == IF text.key = NULL THEN 0 ELSE CleanText(text)

\* embed(text, useCache), up to its return or its first await.
EmbedCalled(c, text, useCache) ==
    /\ embedCaller[c].pc \in {"idle", "returned", "thrown"}
    /\ embedOp.calls < MaxEmbedCalls
    /\ embedOp' = [embedOp EXCEPT !.calls = @ + 1]
    /\ LET clean == CleanOrNone(text)
           i == CacheHit(queryEmbeddingCache, clean, useCache)
       IN  IF clean = 0
           THEN /\ embedCaller' = [embedCaller EXCEPT ![c] =
                                       EmbedCallOver("embed", "returned")]
                /\ UNCHANGED queryEmbeddingCache
           ELSE IF i # 0
           THEN /\ queryEmbeddingCache' =
                       [queryEmbeddingCache EXCEPT ![i].lastUsed = now]
                /\ embedCaller' = [embedCaller EXCEPT ![c] =
                                       EmbedCallOver("embed", "returned")]
           ELSE /\ embedCaller' = [embedCaller EXCEPT ![c] =
                       [pc |-> "computing", kind |-> "embed", cleans |-> <<clean>>,
                        useCache |-> useCache]]
                /\ UNCHANGED queryEmbeddingCache
    /\ UNCHANGED <<now, notEmbed>>

\* The entries of a cache that another one does not hold.
EntriesGone(before, after) ==
    SelectSeq(before, LAMBDA e : CacheIndex(after, e.key) = 0)

\* embed() after await pipe(cleanText, ...): the vector is stored when the
\* cache is in use; a failure of the model is thrown.
EmbedComputed(c, outcome) ==
    /\ embedCaller[c].pc = "computing"
    /\ embedCaller[c].kind = "embed"
    /\ LET clean == embedCaller[c].cleans[1]
           after == CacheStore(queryEmbeddingCache, clean, EmbeddingOf(clean), now,
                               embedCaller[c].useCache)
       IN  IF outcome = "rejected"
           THEN /\ embedCaller' = [embedCaller EXCEPT ![c] =
                                       EmbedCallOver("embed", "thrown")]
                /\ UNCHANGED <<queryEmbeddingCache, embedOp>>
           ELSE /\ queryEmbeddingCache' = after
                /\ embedCaller' = [embedCaller EXCEPT ![c] =
                                       EmbedCallOver("embed", "returned")]
                /\ embedOp' = [embedOp EXCEPT
                                  !.sizeBefore = Len(queryEmbeddingCache),
                                  !.evicted = EntriesGone(queryEmbeddingCache, after)]
    /\ UNCHANGED <<now, notEmbed>>

\* The batches of the calls: none, one or two texts.
EmbedBatches ==
    {<<>>, <<NullText>>, <<Text(1, FALSE, 0)>>, <<Text(BackgroundKey(1), FALSE, 0)>>,
     <<Text(1, FALSE, 1), NullText>>,
     <<Text(BackgroundKey(1), FALSE, 0), Text(BackgroundKey(2), TRUE, 0)>>}

\* embedBatch(texts), up to its return or its first await: every text goes
\* through embed(text, false).
EmbedBatchCalled(c, texts) ==
    /\ embedCaller[c].pc \in {"idle", "returned", "thrown"}
    /\ embedOp.calls < MaxEmbedCalls
    /\ embedOp' = [embedOp EXCEPT !.calls = @ + 1]
    /\ LET cleans == [k \in DOMAIN texts |-> CleanOrNone(texts[k])]
       IN  embedCaller' = [embedCaller EXCEPT ![c] =
               IF \A k \in DOMAIN cleans :
                      cleans[k] = 0
                      \/ CacheHit(queryEmbeddingCache, cleans[k], FALSE) # 0
               THEN EmbedCallOver("embedBatch", "returned")
               ELSE [pc |-> "computing", kind |-> "embedBatch", cleans |-> cleans,
                     useCache |-> FALSE]]
    /\ UNCHANGED queryEmbeddingCache
    /\ UNCHANGED <<now, notEmbed>>

\* The cache after the stores of the embed calls of a batch.
RECURSIVE StoreAll(_, _, _, _)
StoreAll(cache, cleans, t, useCache) ==
    IF cleans = <<>> THEN cache
    ELSE StoreAll(IF Head(cleans) # 0
                  THEN CacheStore(cache, Head(cleans), EmbeddingOf(Head(cleans)), t,
                                  useCache)
                  ELSE cache,
                  Tail(cleans), t, useCache)

\* embedBatch() after await Promise.all(...): it returns the vectors, or
\* throws the failure of the model.
EmbedBatchSettles(c, outcome) ==
    /\ embedCaller[c].pc = "computing"
    /\ embedCaller[c].kind = "embedBatch"
    /\ IF outcome = "rejected"
       THEN /\ embedCaller' = [embedCaller EXCEPT ![c] =
                                   EmbedCallOver("embedBatch", "thrown")]
            /\ UNCHANGED queryEmbeddingCache
       ELSE /\ queryEmbeddingCache' =
                   StoreAll(queryEmbeddingCache, embedCaller[c].cleans, now,
                            embedCaller[c].useCache)
            /\ embedCaller' = [embedCaller EXCEPT ![c] =
                                   EmbedCallOver("embedBatch", "returned")]
    /\ UNCHANGED <<embedOp, now, notEmbed>>

EmbedTimePasses ==
    /\ now < EmbedStart + MaxEmbedTicks
    /\ now' = now + 1
    /\ UNCHANGED <<embedVars, notEmbed>>

NextEmbed ==
    \/ \E c \in EmbedCallers, text \in EmbedTexts, useCache \in BOOLEAN :
          EmbedCalled(c, text, useCache)
    \/ \E c \in EmbedCallers, outcome \in {"resolved", "rejected"} :
          EmbedComputed(c, outcome)
    \/ \E c \in EmbedCallers, texts \in EmbedBatches : EmbedBatchCalled(c, texts)
    \/ \E c \in EmbedCallers, outcome \in {"resolved", "rejected"} :
          EmbedBatchSettles(c, outcome)
    \/ EmbedTimePasses

-----------------------------------------------------------------------------
(* The vector store of src/src/memory/embeddings.ts: the chunks table,      *)
(* upsertChunk, upsertChunksBatch, deleteBySource, loadAllMemoryChunks and  *)
(* the embeddings search writes back. A text is the sequence of its         *)
(* character codes.                                                         *)

MaxChunkCalls == 3

\* "Aa", "BB" (same simpleHash as "Aa") and "Ab".
MemoryTexts == {<<65, 97>>, <<66, 66>>, <<65, 98>>}

ChunkSources == {"MEMORY"}

\* simpleHash(text), before toString(16): hash = ((hash << 5) - hash) + char
\* for each character. The texts of the calls are too short for the 32-bit
\* wrap of hash & hash to act.
RECURSIVE HashFrom(_, _)
HashFrom(hash, text) ==
    IF text = <<>> THEN hash
    ELSE HashFrom(hash * 32 - hash + Head(text), Tail(text))

simpleHash(text) == HashFrom(0, text)

\* No embedding (undefined in a chunk, NULL in a row).
NoEmbedding == <<>>

\* `${source}:${chunkIndex}` and `${source}:${simpleHash(text)}`.
IndexId(source, index) == <<source, "index", index>>
HashId(source, text) == <<source, "hash", simpleHash(text)>>
NoId == <<>>

\* The chunks the calls are made with: as splitIntoChunks makes them (an id
\* of source and index, no embedding), without id, and with their embedding.
ChunkInputs ==
    [id : {NoId} \cup {IndexId(s, k) : s \in ChunkSources, k \in 0..1},
     text : MemoryTexts, source : ChunkSources, hash : {0}, embedding : {NoEmbedding},
     timestamp : {1}]

WithHash(chunk) == [chunk EXCEPT !.hash = simpleHash(chunk.text)]
WithEmbedding(chunk) == [chunk EXCEPT !.embedding = EmbeddingOf(chunk.text)]

Chunks ==
    {WithHash(c) : c \in ChunkInputs}
    \cup {WithEmbedding(WithHash(c)) : c \in ChunkInputs}

\* const id = chunk.id || `${chunk.source}:${simpleHash(chunk.text)}`
ChunkId(chunk) ==
    IF chunk.id # NoId THEN chunk.id ELSE HashId(chunk.source, chunk.text)

\* INSERT OR REPLACE INTO chunks (id, text, source, hash, embedding,
\* timestamp): id is the primary key.
InsertOrReplace(rows, chunk) ==
    {r \in rows : r.id # ChunkId(chunk)} \cup {[chunk EXCEPT !.id = ChunkId(chunk)]}

RECURSIVE UpsertAll(_, _)
UpsertAll(rows, chunks) ==
    IF chunks = <<>> THEN rows
    ELSE UpsertAll(InsertOrReplace(rows, Head(chunks)), Tail(chunks))

NoChunkOp == [calls |-> 0, computed |-> 0]

ChunkIdle == chunkRows = {} /\ chunkCache = {} /\ chunkOp = NoChunkOp

ChunkInit == ChunkIdle

ChunkCalled == [chunkOp EXCEPT !.calls = @ + 1]

\* upsertChunk(chunk), with invalidateCache().
UpsertChunk(chunk) ==
    /\ chunkOp.calls < MaxChunkCalls
    /\ chunkRows' = InsertOrReplace(chunkRows, chunk)
    /\ chunkCache' = {}
    /\ chunkOp' = ChunkCalled
    /\ UNCHANGED notChunk

\* upsertChunksBatch(chunks), with invalidateCache().
UpsertChunksBatch(chunks) ==
    /\ chunkOp.calls < MaxChunkCalls
    /\ chunkRows' = UpsertAll(chunkRows, chunks)
    /\ chunkCache' = IF chunks = <<>> THEN chunkCache ELSE {}
    /\ chunkOp' = ChunkCalled
    /\ UNCHANGED notChunk

\* deleteBySource(source)
DeleteBySource(source) ==
    /\ chunkOp.calls < MaxChunkCalls
    /\ chunkRows' = {r \in chunkRows : r.source # source}
    /\ chunkCache' = IF chunkRows' # chunkRows THEN {} ELSE chunkCache
    /\ chunkOp' = ChunkCalled
    /\ UNCHANGED notChunk

\* The chunks splitIntoChunks makes of a file whose sections are the texts.
FileChunks(texts, source) ==
    [k \in DOMAIN texts |->
        [id |-> IndexId(source, k - 1), text |-> texts[k], source |-> source,
         hash |-> simpleHash(texts[k]), embedding |-> NoEmbedding, timestamp |-> 1]]

\* loadAllMemoryChunks() with no valid cache: loadFromFilesystem upserts the
\* chunks of the file whose hash no row has, and the rows are cached.
LoadAllMemoryChunks(texts, source) ==
    /\ chunkOp.calls < MaxChunkCalls
    /\ chunkCache = {}
    /\ LET existingHashes == {r.hash : r \in chunkRows}
           newChunks == SelectSeq(FileChunks(texts, source),
                                  LAMBDA c : c.hash \notin existingHashes)
       IN  /\ chunkRows' = UpsertAll(chunkRows, newChunks)
           /\ chunkCache' = chunkRows'
    /\ chunkOp' = ChunkCalled
    /\ UNCHANGED notChunk

\* search(): the rows without embedding get theirs from embedBatch, written
\* with UPDATE chunks SET embedding = ? WHERE id = ?.
SearchEmbedsMissing ==
    /\ chunkOp.calls < MaxChunkCalls
    /\ chunkRows # {}
    /\ chunkRows' = {IF r.embedding = NoEmbedding THEN WithEmbedding(r) ELSE r :
                        r \in chunkRows}
    /\ chunkOp' = [calls |-> chunkOp.calls + 1,
                   computed |-> chunkOp.computed
                       + Cardinality({r \in chunkRows : r.embedding = NoEmbedding})]
    /\ UNCHANGED chunkCache
    /\ UNCHANGED notChunk

\* The batches and the files of the calls.
ChunkBatches ==
    {<<>>} \cup {<<c>> : c \in Chunks}
    \cup {<<c, d>> : c, d \in {x \in Chunks : x.id = NoId /\ x.embedding = NoEmbedding}}

ChunkFiles == {<<t>> : t \in MemoryTexts} \cup {<<t, u>> : t, u \in MemoryTexts}

NextChunk ==
    \/ \E chunk \in Chunks : UpsertChunk(chunk)
    \/ \E chunks \in ChunkBatches : UpsertChunksBatch(chunks)
    \/ \E source \in ChunkSources : DeleteBySource(source)
    \/ \E texts \in ChunkFiles, source \in ChunkSources :
          LoadAllMemoryChunks(texts, source)
    \/ SearchEmbedsMissing

-----------------------------------------------------------------------------
(* splitIntoChunks: src/src/memory/embeddings.ts (and the earlier vector    *)
(* store of src/unnamed/part_005, which splits in the same way). A string   *)
(* is the sequence of the lengths of its lines, as split("\n") gives them:  *)
(* the empty string is <<0>>. A line that is not empty has no white space   *)
(* at its ends.                                                             *)

MIN_CHUNK_LENGTH == 20
MAX_CHUNK_LENGTH == 500

MaxLines == 3

EmptyString == <<0>>

RECURSIVE SumOf(_)
SumOf(lengths) == IF lengths = <<>> THEN 0 ELSE Head(lengths) + SumOf(Tail(lengths))

\* string.length: the characters of the lines and the "\n" between them.
StrLen(str) == SumOf(str) + Len(str) - 1

\* string.trim(): the empty lines at both ends go, with their "\n".
Trim(str) ==
    LET full == {k \in DOMAIN str : str[k] # 0}
    IN  IF full = {} THEN EmptyString
        ELSE SubSeq(str, CHOOSE k \in full : \A j \in full : k <= j,
                         CHOOSE k \in full : \A j \in full : k >= j)

\* The lines of a file: a "## " header or another line, of some length.
FileLine(header, len) == [header |-> header, len |-> len]

FileLines ==
    {FileLine(TRUE, 10)}
    \cup {FileLine(FALSE, len) : len \in {0, 5, 250, MAX_CHUNK_LENGTH + 1}}

FileTexts == UNION {[1..n -> FileLines] : n \in 0..MaxLines}

\* text.split(/(?=^## )/m): a section starts at every header line but the
\* first line of the text; every section but the last ends with "\n".
RECURSIVE SectionsFrom(_, _, _)
SectionsFrom(lines, section, k) ==
    IF k > Len(lines) THEN <<section>>
    ELSE IF lines[k].header /\ k > 1
    THEN <<Append(section, 0)>> \o SectionsFrom(lines, <<lines[k].len>>, k + 1)
    ELSE SectionsFrom(lines, Append(section, lines[k].len), k + 1)

Sections(lines) ==
    IF lines = <<>> THEN <<EmptyString>> ELSE SectionsFrom(lines, <<>>, 1)

\* The loop over the lines of a section that is too long, and what follows
\* it: the chunks pushed.
RECURSIVE SplitLines(_, _, _)
SplitLines(lines, currentChunk, chunks) ==
    IF lines = <<>>
    THEN IF StrLen(Trim(currentChunk)) > 0
         THEN Append(chunks, Trim(currentChunk))
         ELSE chunks
    ELSE IF StrLen(currentChunk) + Head(lines) > MAX_CHUNK_LENGTH
    THEN SplitLines(Tail(lines), <<Head(lines)>>,
                    IF StrLen(Trim(currentChunk)) > 0
                    THEN Append(chunks, Trim(currentChunk))
                    ELSE chunks)
    ELSE SplitLines(Tail(lines), Append(currentChunk, Head(lines)), chunks)

\* The chunks of one section.
SectionChunks(section) ==
    LET trimmed == Trim(section) IN
    IF StrLen(trimmed) = 0 \/ StrLen(trimmed) < MIN_CHUNK_LENGTH THEN <<>>
    ELSE IF StrLen(trimmed) > MAX_CHUNK_LENGTH
    THEN SplitLines(trimmed, EmptyString, <<>>)
    ELSE <<trimmed>>

RECURSIVE ChunksOf(_)
ChunksOf(sections) ==
    IF sections = <<>> THEN <<>>
    ELSE SectionChunks(Head(sections)) \o ChunksOf(Tail(sections))

\* splitIntoChunks(text, source, timestamp): the texts of its chunks.
splitIntoChunks(lines) == ChunksOf(Sections(lines))

NoSplitCall == [pc |-> "idle", text |-> <<>>, chunks |-> <<>>]

SplitIdle == splitCall = NoSplitCall

SplitInit == \E text \in FileTexts : splitCall = [NoSplitCall EXCEPT !.text = text]

SplitReturns ==
    /\ splitCall.pc = "idle"
    /\ splitCall' = [splitCall EXCEPT !.pc = "returned",
                                      !.chunks = splitIntoChunks(splitCall.text)]
    /\ UNCHANGED notSplit

NextSplit == SplitReturns

-----------------------------------------------------------------------------
(* combineWithRRF and calculateRRFScore: src/src/memory/embeddings.ts. A    *)
(* search result is its text and its source; a score is the fraction        *)
(* <<numerator, denominator>>.                                              *)

MaxResults == 3

RRF_K == 60

ResultTexts == {"A", "B", "C", "D"}

SearchHit(text) == [text |-> text, source |-> "MEMORY.md"]

\* The result lists a search can hand over: every list of at most MaxResults
\* hits, the same hit more than once included.
ResultLists ==
    UNION {[1..n -> {SearchHit(t) : t \in ResultTexts}] : n \in 0..MaxResults}

TopKs == {2, 5}

\* makeKey(text, source): `${source}:${text.slice(0, 100)}`; the texts here
\* are shorter than 100 characters.
makeKey(text, source) == <<source, text>>

KeyOf(r) == makeKey(r.text, r.source)

\* A fraction that ignores the keyword rank.
VectorRankOnly(vectorRank, keywordRank, k) ==
    IF vectorRank # NULL THEN <<1, k + vectorRank>> ELSE <<0, 1>>

\* calculateRRFScore(vectorRank, keywordRank, k): 1 / (k + rank) for each rank
\* that is not null, added up.
calculateRRFScore(vectorRank, keywordRank, k) ==
    CASE vectorRank # NULL /\ keywordRank # NULL ->
            <<(k + keywordRank) + (k + vectorRank),
              (k + vectorRank) * (k + keywordRank)>>
      [] vectorRank # NULL -> <<1, k + vectorRank>>
      [] keywordRank # NULL -> <<1, k + keywordRank>>
      [] OTHER -> <<0, 1>>

\* a > b and a = b for fractions with positive denominators.
ScoreAbove(a, b) == a[1] * b[2] > b[1] * a[2]
ScoreEqual(a, b) == a[1] * b[2] = b[1] * a[2]

\* results.forEach((r, i) => rankMap.set(makeKey(r.text, r.source), i + 1)):
\* the rank of a key is the last position it has in the list.
RankIn(results, key) ==
    LET at == {i \in DOMAIN results : KeyOf(results[i]) = key}
    IN  IF at = {} THEN NULL ELSE CHOOSE i \in at : \A j \in at : j <= i

\* The values of the map allResults, in the order the keys were first set:
\* the vector results' keys, then the keyword results' new ones.
RECURSIVE FirstOfEachKey(_, _)
FirstOfEachKey(results, seen) ==
    IF results = <<>>
    THEN <<>>
    ELSE IF KeyOf(Head(results)) \in seen
         THEN FirstOfEachKey(Tail(results), seen)
         ELSE <<Head(results)>>
              \o FirstOfEachKey(Tail(results), seen \cup {KeyOf(Head(results))})

\* Array.prototype.sort((a, b) => b.score - a.score): by falling score, the
\* results of equal score staying in the order they had (the sort is stable).
SortByScore(results) ==
    LET n == Len(results)
        Before(i, j) ==
            \/ ScoreAbove(results[i].score, results[j].score)
            \/ ScoreEqual(results[i].score, results[j].score) /\ i < j
        place(i) == Cardinality({j \in 1..n : Before(j, i)}) + 1
    IN  [p \in 1..n |-> results[CHOOSE i \in 1..n : place(i) = p]]

\* combineWithRRF(vectorResults, keywordResults, topK)
combineWithRRF(vectorResults, keywordResults, topK) ==
    LET allResults == FirstOfEachKey(vectorResults \o keywordResults, {})
        results ==
            [i \in DOMAIN allResults |->
                [text |-> allResults[i].text,
                 source |-> allResults[i].source,
                 score |-> calculateRRFScore(
                               RankIn(vectorResults, KeyOf(allResults[i])),
                               RankIn(keywordResults, KeyOf(allResults[i])),
                               RRF_K)]]
    IN  SubSeq(SortByScore(results), 1, Min(topK, Len(results)))

NoRrfCall ==
    [pc |-> "idle", vectorResults |-> <<>>, keywordResults |-> <<>>,
     topK |-> 0, results |-> <<>>]

RrfIdle == rrfCall = NoRrfCall

RrfInit ==
    \E v \in ResultLists, k \in ResultLists, topK \in TopKs :
        rrfCall = [NoRrfCall EXCEPT !.vectorResults = v,
                                    !.keywordResults = k, !.topK = topK]

RrfReturns ==
    /\ rrfCall.pc = "idle"
    /\ rrfCall' = [rrfCall EXCEPT
                     !.pc = "returned",
                     !.results = combineWithRRF(rrfCall.vectorResults,
                                                rrfCall.keywordResults,
                                                rrfCall.topK)]
    /\ UNCHANGED notRrf

NextRrf == RrfReturns

-----------------------------------------------------------------------------
(* hybridSearch, in its two revisions                                       *)
(*   "original"  src/src/memory/hybridSearch.original.ts                    *)
(*   "v2"        src/src/memory/embeddings.ts, lines 945-991                *)
(* A vector score is in tenths, a BM25 score an integer (the lower, the     *)
(* better); a combined score is a fraction, as in combineWithRRF.           *)

HybridRevisions == {"original", "v2"}

DEFAULT_TOP_K == 5

NoScore == <<>>

ScoredHit(text, score) == [text |-> text, source |-> "MEMORY.md", score |-> score]

\* What the vector search and the keyword search find when they succeed.
VectorFinds == {<<>>, <<ScoredHit("A", 9), ScoredHit("B", 5)>>}
KeywordFinds == {<<>>, <<ScoredHit("B", 0 - 3), ScoredHit("C", 0 - 1)>>}

\* How an awaited part ends: it resolves, it rejects, or it is still pending
\* when the time allowed for it is over.
PartOutcomes == {"ok", "throws", "late"}

AddScores(a, b) == <<a[1] * b[2] + b[1] * a[2], a[2] * b[2]>>

\* normalizeBm25Score(score, minScore, maxScore), a value from 0 to 1.
normalizeBm25Score(score, minScore, maxScore) ==
    IF maxScore = minScore
    THEN <<1, 1>>
    ELSE LET normalized == <<maxScore - score, maxScore - minScore>>
         IN  IF ScoreAbove(<<0, 1>>, normalized) THEN <<0, 1>>
             ELSE IF ScoreAbove(normalized, <<1, 1>>) THEN <<1, 1>>
             ELSE normalized

\* score * vectorWeight and normalizedScore * keywordWeight, with the weights
\* 0.7 and 0.3 of the defaults.
VectorWeighted(tenths) == <<7 * tenths, 100>>
KeywordWeighted(normalized) == <<3 * normalized[1], 10 * normalized[2]>>

\* The entry of scoreMap for a key after the two loops: the last vector
\* result of that key, and every keyword result of that key added to it.
RECURSIVE AddKeywordScores(_, _, _, _)
AddKeywordScores(entry, keywordResults, minBm25, maxBm25) ==
    IF keywordResults = <<>>
    THEN entry
    ELSE LET r == Head(keywordResults)
             normalized == normalizeBm25Score(r.score, minBm25, maxBm25)
             next ==
                 IF KeyOf(r) # KeyOf(entry)
                 THEN entry
                 ELSE IF entry.score = NoScore
                 THEN [entry EXCEPT !.score = KeywordWeighted(normalized),
                                    !.keywordScore = normalized]
                 ELSE [entry EXCEPT
                         !.score = AddScores(@, KeywordWeighted(normalized)),
                         !.keywordScore = normalized]
         IN  AddKeywordScores(next, Tail(keywordResults), minBm25, maxBm25)

\* The merge of the original revision's hybridSearch (lines 114-154), which
\* is combineWithWeights of the later one.
combineWithWeights(vectorResults, keywordResults, topK) ==
    LET keys == FirstOfEachKey(vectorResults \o keywordResults, {})
        scores == {keywordResults[i].score : i \in DOMAIN keywordResults}
        minBm25 == CHOOSE s \in scores : \A t \in scores : s <= t
        maxBm25 == CHOOSE s \in scores : \A t \in scores : s >= t
        FromVector(key) ==
            LET rank == RankIn(vectorResults, key)
            IN  IF rank = NULL
                THEN [text |-> key[2], source |-> key[1], score |-> NoScore,
                      vectorScore |-> NoScore, keywordScore |-> NoScore]
                ELSE [text |-> key[2], source |-> key[1],
                      score |-> VectorWeighted(vectorResults[rank].score),
                      vectorScore |-> <<vectorResults[rank].score, 10>>,
                      keywordScore |-> NoScore]
        entries ==
            [i \in DOMAIN keys |->
                IF keywordResults = <<>>
                THEN FromVector(KeyOf(keys[i]))
                ELSE AddKeywordScores(FromVector(KeyOf(keys[i])),
                                      keywordResults, minBm25, maxBm25)]
    IN  SubSeq(SortByScore(entries), 1, Min(topK, Len(entries)))

\* The hits without their scores, which combineWithRRF does not rank by.
Unscored(results) ==
    [i \in DOMAIN results |-> [text |-> results[i].text, source |-> results[i].source]]

NoHybrid ==
    [rev |-> "none", pc |-> "idle", useRRF |-> FALSE,
     embedOutcome |-> "ok", vectorOutcome |-> "ok", keywordOutcome |-> "ok",
     vectorFinds |-> <<>>, keywordFinds |-> <<>>,
     embedding |-> "none", vector |-> "none", keyword |-> "none",
     vectorResults |-> <<>>, keywordResults |-> <<>>, results |-> <<>>]

HybridIdle == hybrid = NoHybrid

\* A call about to be made: the revision, the option useRRF (the later
\* revision has it), and how the three parts will end.
HybridInit ==
    \E rev \in HybridRevisions, useRRF \in BOOLEAN,
       e \in PartOutcomes, v \in PartOutcomes, k \in {"ok", "throws"},
       vf \in VectorFinds, kf \in KeywordFinds :
        /\ rev = "original" => ~useRRF
        /\ hybrid = [NoHybrid EXCEPT !.rev = rev, !.useRRF = useRRF,
                                     !.embedOutcome = e, !.vectorOutcome = v,
                                     !.keywordOutcome = k,
                                     !.vectorFinds = vf, !.keywordFinds = kf]

\* hybridSearch up to its first await. The original revision queues the
\* keyword search behind Promise.resolve() and starts embed(query) under
\* withTimeout and withFallback; the later one starts
\* getCachedQueryEmbedding(query) and then runs the keyword search while it
\* builds the argument of Promise.all, so that a keyword search that throws
\* rejects the call.
HybridCalled ==
    /\ hybrid.pc = "idle"
    /\ hybrid.rev \in HybridRevisions
    /\ hybrid' =
         IF hybrid.rev = "original"
         THEN [hybrid EXCEPT !.pc = "awaiting", !.embedding = "pending",
                             !.keyword = "pending"]
         ELSE IF hybrid.keywordOutcome = "throws"
         THEN [hybrid EXCEPT !.pc = "thrown", !.embedding = "pending",
                             !.keyword = "threw"]
         ELSE [hybrid EXCEPT !.pc = "awaiting", !.embedding = "pending",
                             !.keyword = "ok",
                             !.keywordResults = hybrid.keywordFinds]
    /\ UNCHANGED notHybrid

\* The original revision's keywordPromise: searchKeyword inside try/catch,
\* an error giving the empty list.
HybridKeywordRuns ==
    /\ hybrid.pc = "awaiting"
    /\ hybrid.keyword = "pending"
    /\ hybrid' =
         IF hybrid.keywordOutcome = "throws"
         THEN [hybrid EXCEPT !.keyword = "threw", !.keywordResults = <<>>]
         ELSE [hybrid EXCEPT !.keyword = "ok",
                             !.keywordResults = hybrid.keywordFinds]
    /\ UNCHANGED notHybrid

\* The state after the vector search has been started, or has ended with
\* the results given.
VectorStarted(h) == [h EXCEPT !.embedding = "ok", !.vector = "pending"]
VectorOver(h, how, results) ==
    [h EXCEPT !.vector = how, !.vectorResults = results]

\* embed(query) settles within the time allowed. The original revision goes
\* on to the vector search, or without it (withFallback's null) when embed
\* rejected; the later revision's Promise.all rejects with embed's error.
HybridEmbedSettles ==
    /\ hybrid.pc = "awaiting"
    /\ hybrid.embedding = "pending"
    /\ hybrid.embedOutcome \in {"ok", "throws"}
    /\ hybrid.rev = "v2" => hybrid.keyword = "ok"
    /\ hybrid' =
         IF hybrid.embedOutcome = "ok"
         THEN VectorStarted(hybrid)
         ELSE IF hybrid.rev = "original"
         THEN VectorOver([hybrid EXCEPT !.embedding = "threw"], "skipped", <<>>)
         ELSE [hybrid EXCEPT !.embedding = "threw", !.pc = "thrown"]
    /\ UNCHANGED notHybrid

\* The timer of withTimeout(..., EMBED_TIMEOUT_MS) fires before embed has
\* settled (original revision only: the later one sets no timer).
HybridEmbedTimesOut ==
    /\ hybrid.pc = "awaiting"
    /\ hybrid.rev = "original"
    /\ hybrid.embedding = "pending"
    /\ hybrid.embedOutcome = "late"
    /\ hybrid' = VectorOver([hybrid EXCEPT !.embedding = "timedOut"],
                            "skipped", <<>>)
    /\ UNCHANGED notHybrid

\* The vector search settles within the time allowed.
HybridVectorSettles ==
    /\ hybrid.pc = "awaiting"
    /\ hybrid.vector = "pending"
    /\ hybrid.vectorOutcome \in {"ok", "throws"}
    /\ hybrid' =
         IF hybrid.vectorOutcome = "ok"
         THEN VectorOver(hybrid, "ok", hybrid.vectorFinds)
         ELSE IF hybrid.rev = "original"
         THEN VectorOver(hybrid, "threw", <<>>)
         ELSE [hybrid EXCEPT !.vector = "threw", !.pc = "thrown"]
    /\ UNCHANGED notHybrid

\* The timer of withTimeout(..., SEARCH_TIMEOUT_MS) fires before the vector
\* search has settled (original revision only).
HybridVectorTimesOut ==
    /\ hybrid.pc = "awaiting"
    /\ hybrid.rev = "original"
    /\ hybrid.vector = "pending"
    /\ hybrid.vectorOutcome = "late"
    /\ hybrid' = VectorOver(hybrid, "timedOut", <<>>)
    /\ UNCHANGED notHybrid

\* Both parts are over: the results are merged and returned.
HybridReturns ==
    /\ hybrid.pc = "awaiting"
    /\ hybrid.keyword \in {"ok", "threw"}
    /\ hybrid.vector \in {"ok", "threw", "timedOut", "skipped"}
    /\ hybrid' =
         [hybrid EXCEPT
            !.pc = "returned",
            !.results =
                IF hybrid.vectorResults = <<>> /\ hybrid.keywordResults = <<>>
                THEN <<>>
                ELSE IF hybrid.useRRF
                THEN combineWithRRF(Unscored(hybrid.vectorResults),
                                    Unscored(hybrid.keywordResults),
                                    DEFAULT_TOP_K)
                ELSE combineWithWeights(hybrid.vectorResults,
                                        hybrid.keywordResults, DEFAULT_TOP_K)]
    /\ UNCHANGED notHybrid

NextHybrid ==
    \/ HybridCalled
    \/ HybridKeywordRuns
    \/ HybridEmbedSettles
    \/ HybridEmbedTimesOut
    \/ HybridVectorSettles
    \/ HybridVectorTimesOut
    \/ HybridReturns

-----------------------------------------------------------------------------
(* executeRunCommand and validateCommand: src/unnamed/part_003. A command   *)
(* line is the sequence of its tokens, which single blanks separate; a      *)
(* token is the directory part and the last component of a path (a word     *)
(* that is no path has no directory part).                                  *)

MaxTokens == 3

ALLOWED_COMMANDS ==
    {"ls", "pwd", "cat", "head", "tail", "grep", "find", "wc",
     "sort", "uniq", "diff", "echo", "date", "which", "env", "printenv",
     "git", "npm", "npx", "node", "pnpm", "yarn", "bun",
     "sed", "awk", "cut", "tr", "jq"}

\* The back quote, the line feed and the carriage return are written by name.
DISALLOWED_PIPELINE_TOKENS ==
    {">", "<", "backquote", "linefeed", "return", "(", ")", "$(", "${"}

DANGEROUS_ARGS ==
    {"--force", "-rf", "--hard", "--no-preserve-root", "-f", "--delete",
     "--remove"}

BLOCKED_COMMANDS ==
    {"rm", "rmdir", "mv", "cp", "chmod", "chown", "chgrp",
     "sudo", "su", "dd", "mkfs", "fdisk", "mount", "umount",
     "kill", "killall", "pkill", "shutdown", "reboot", "halt",
     "curl", "wget"}

Token(dir, base) == [dir |-> dir, base |-> base]

TextOf(token) == IF token.dir = "" THEN token.base ELSE "path"

\* The tokens the command lines are made of: commands that are allowed,
\* blocked and neither, a path to a blocked one, arguments, the operators of
\* the shell and a redirection.
Tokens ==
    {Token("", "ls"), Token("", "rm"), Token("/bin/", "rm"), Token("", "nc"),
     Token("", "-rf"), Token("/", ""), Token("", "&&"), Token("", "||"),
     Token("", ";"), Token("", "|"), Token("", "&"), Token("", ">")}

CommandLines == UNION {[1..n -> Tokens] : n \in 0..MaxTokens}

\* The operators at which the shell starts another command, and those among
\* them at which splitChainedCommands splits.
ShellOperators == {"&&", "||", ";", "|", "&"}
ChainOperators == {"&&", "||", ";"}

\* The command line cut at the tokens that are operators of `operators`: the
\* sequence of the parts between them.
RECURSIVE SplitAt(_, _, _)
SplitAt(line, operators, part) ==
    IF line = <<>>
    THEN <<part>>
    ELSE IF TextOf(Head(line)) \in operators
         THEN <<part>> \o SplitAt(Tail(line), operators, <<>>)
         ELSE SplitAt(Tail(line), operators, Append(part, Head(line)))

\* extractCommandName(command): path.basename of the first word; null, which
\* the empty string stands for, when the command is empty.
extractCommandName(cmd) == IF cmd = <<>> THEN "" ELSE Head(cmd).base

\* containsDisallowedTokens(command)
containsDisallowedTokens(line) ==
    \E i \in DOMAIN line : TextOf(line[i]) \in DISALLOWED_PIPELINE_TOKENS

\* splitChainedCommands(command): command.split(/\s*(?:&&|\|\||;)\s*/)
splitChainedCommands(line) == SplitAt(line, ChainOperators, <<>>)

\* The checks validateCommand makes on one of the chained commands.
CommandPasses(cmd) ==
    LET cmdName == extractCommandName(cmd)
    IN  \/ cmdName = ""
        \/ /\ cmdName \notin BLOCKED_COMMANDS
           /\ cmdName \in ALLOWED_COMMANDS
           /\ \A i \in 2..Len(cmd) : TextOf(cmd[i]) \notin DANGEROUS_ARGS

\* validateCommand(command).valid
validateCommand(line) ==
    /\ ~containsDisallowedTokens(line)
    /\ LET commands == splitChainedCommands(line)
       IN  \A i \in DOMAIN commands : CommandPasses(commands[i])

\* What sh -c runs for a command line: the first word of each of its simple
\* commands, which &&, ||, ;, | and & separate. Each is given by the last
\* component of its path; a directory is not run.
ShellRuns(line) ==
    LET simple == SplitAt(line, ShellOperators, <<>>)
    IN  {Head(simple[i]).base :
            i \in {j \in DOMAIN simple :
                      simple[j] # <<>> /\ Head(simple[j]).base # ""}}

NoRunCommand ==
    [pc |-> "idle", command |-> <<>>, cwdValid |-> TRUE, valid |-> FALSE,
     ran |-> {}]

CommandIdle == runCommand = NoRunCommand

CommandInit ==
    \E line \in CommandLines, cwdValid \in BOOLEAN :
        runCommand = [NoRunCommand EXCEPT !.command = line,
                                          !.cwdValid = cwdValid]

\* executeRunCommand(input): the command is validated, then the working
\* directory, and the command is handed to sh -c (spawn in the background,
\* exec in the foreground).
ExecuteRunCommand ==
    /\ runCommand.pc = "idle"
    /\ runCommand' =
         LET valid == validateCommand(runCommand.command)
         IN  [runCommand EXCEPT
                !.pc = "returned",
                !.valid = valid,
                !.ran = IF valid /\ runCommand.cwdValid
                        THEN ShellRuns(runCommand.command)
                        ELSE {}]
    /\ UNCHANGED notCommand

NextCommand == ExecuteRunCommand

-----------------------------------------------------------------------------
(* The workspace cache: getWorkspace and invalidateWorkspaceCache of        *)
(* src/src/health/index.ts. The content loadWorkspace() reads is given by   *)
(* the number of invalidations that had returned when it was read.          *)

MaxWsCallers == 2
MaxWsCalls == 3
MaxInvalidations == 1
MaxWsTicks == 2

CACHE_TTL == 300000

WsCallers == 1..MaxWsCallers

NoWsCall == [pc |-> "idle", promise |-> NULL, got |-> NULL, calledAt |-> 0, calls |-> 0]

WorkspaceIdle ==
    /\ cachedWorkspace = NULL
    /\ workspaceCacheTime = 0
    /\ wsLoadingPromise = NULL
    /\ wsLoads = <<>>
    /\ wsCaller = [c \in WsCallers |-> NoWsCall]
    /\ wsEpoch = 0

WorkspaceInit == WorkspaceIdle

\* cachedWorkspace && now - workspaceCacheTime <= CACHE_TTL
WorkspaceIsCached(cached, cacheTime, t) ==
    cached # NULL /\ t - cacheTime <= CACHE_TTL

WsCallsMade ==
    LET RECURSIVE Sum(_)
        Sum(c) == IF c = 0 THEN 0 ELSE wsCaller[c].calls + Sum(c - 1)
    IN  Sum(MaxWsCallers)

\* getWorkspace() up to its await: the cached workspace when it is valid,
\* else the promise of the load in flight, else a new loadWorkspace().
GetWorkspaceCalled(c) ==
    /\ wsCaller[c].pc \in {"idle", "returned", "thrown"}
    /\ WsCallsMade < MaxWsCalls
    /\ LET call == [NoWsCall EXCEPT !.calledAt = wsEpoch,
                                    !.calls = wsCaller[c].calls + 1]
       IN  IF WorkspaceIsCached(cachedWorkspace, workspaceCacheTime, now)
           THEN /\ wsCaller' = [wsCaller EXCEPT
                                  ![c] = [call EXCEPT !.pc = "returned",
                                                      !.got = cachedWorkspace]]
                /\ UNCHANGED <<wsLoadingPromise, wsLoads>>
           ELSE IF wsLoadingPromise # NULL
           THEN /\ wsCaller' = [wsCaller EXCEPT
                                  ![c] = [call EXCEPT !.pc = "sharing",
                                                      !.promise = wsLoadingPromise]]
                /\ UNCHANGED <<wsLoadingPromise, wsLoads>>
           ELSE /\ wsLoads' = Append(wsLoads, [state |-> "pending", content |-> NULL])
                /\ wsLoadingPromise' = Len(wsLoads) + 1
                /\ wsCaller' = [wsCaller EXCEPT
                                  ![c] = [call EXCEPT !.pc = "awaiting",
                                                      !.promise = Len(wsLoads) + 1]]
    /\ UNCHANGED <<cachedWorkspace, workspaceCacheTime, wsEpoch, now>>
    /\ UNCHANGED notWorkspace

\* loadWorkspace() reads the files of the workspace.
LoadWorkspaceReads(l) ==
    /\ l \in DOMAIN wsLoads
    /\ wsLoads[l].state = "pending"
    /\ wsLoads[l].content = NULL
    /\ wsLoads' = [wsLoads EXCEPT ![l].content = wsEpoch]
    /\ UNCHANGED <<cachedWorkspace, workspaceCacheTime, wsLoadingPromise,
                   wsCaller, wsEpoch, now>>
    /\ UNCHANGED notWorkspace

\* The promise of loadWorkspace() settles: resolved with what was read, or
\* rejected.
LoadWorkspaceSettles(l, outcome) ==
    /\ l \in DOMAIN wsLoads
    /\ wsLoads[l].state = "pending"
    /\ outcome = "resolved" => wsLoads[l].content # NULL
    /\ wsLoads' = [wsLoads EXCEPT ![l].state = outcome]
    /\ UNCHANGED <<cachedWorkspace, workspaceCacheTime, wsLoadingPromise,
                   wsCaller, wsEpoch, now>>
    /\ UNCHANGED notWorkspace

\* getWorkspace() after `cachedWorkspace = await loadingPromise` in the
\* caller that started the load: the cache is filled and, in the finally,
\* loadingPromise is set to null.
GetWorkspaceResumes(c) ==
    /\ wsCaller[c].pc = "awaiting"
    /\ wsLoads[wsCaller[c].promise].state # "pending"
    /\ LET load == wsLoads[wsCaller[c].promise]
       IN  IF load.state = "resolved"
           THEN /\ cachedWorkspace' = load.content
                /\ workspaceCacheTime' = now
                /\ wsCaller' = [wsCaller EXCEPT ![c].pc = "returned",
                                                ![c].got = load.content]
           ELSE /\ wsCaller' = [wsCaller EXCEPT ![c].pc = "thrown"]
                /\ UNCHANGED <<cachedWorkspace, workspaceCacheTime>>
    /\ wsLoadingPromise' = NULL
    /\ UNCHANGED <<wsLoads, wsEpoch, now>>
    /\ UNCHANGED notWorkspace

\* A caller that was handed the promise of the load in flight gets its
\* outcome.
GetWorkspaceSharedSettles(c) ==
    /\ wsCaller[c].pc = "sharing"
    /\ wsLoads[wsCaller[c].promise].state # "pending"
    /\ LET load == wsLoads[wsCaller[c].promise]
       IN  wsCaller' =
             IF load.state = "resolved"
             THEN [wsCaller EXCEPT ![c].pc = "returned", ![c].got = load.content]
             ELSE [wsCaller EXCEPT ![c].pc = "thrown"]
    /\ UNCHANGED <<cachedWorkspace, workspaceCacheTime, wsLoadingPromise,
                   wsLoads, wsEpoch, now>>
    /\ UNCHANGED notWorkspace

\* invalidateWorkspaceCache()
InvalidateWorkspaceCache ==
    /\ wsEpoch < MaxInvalidations
    /\ cachedWorkspace' = NULL
    /\ workspaceCacheTime' = 0
    /\ wsLoadingPromise' = NULL
    /\ wsEpoch' = wsEpoch + 1
    /\ UNCHANGED <<wsLoads, wsCaller, now>>
    /\ UNCHANGED notWorkspace

\* CACHE_TTL milliseconds pass.
WorkspaceTimePasses ==
    /\ now < MaxWsTicks * CACHE_TTL
    /\ now' = now + CACHE_TTL
    /\ UNCHANGED workspaceVars
    /\ UNCHANGED notWorkspace

NextWorkspace ==
    \/ \E c \in WsCallers : GetWorkspaceCalled(c)
    \/ \E l \in 1..MaxWsCalls : LoadWorkspaceReads(l)
    \/ \E l \in 1..MaxWsCalls, outcome \in {"resolved", "rejected"} :
          LoadWorkspaceSettles(l, outcome)
    \/ \E c \in WsCallers : GetWorkspaceResumes(c)
    \/ \E c \in WsCallers : GetWorkspaceSharedSettles(c)
    \/ InvalidateWorkspaceCache
    \/ WorkspaceTimePasses

-----------------------------------------------------------------------------
(* The reminders of src/unnamed/part_012: createReminder, deleteReminder,   *)
(* executeReminder. reminders.json is the sequence of the ids of its       *)
(* reminders. The reminders of the calls are one-shot reminders of a time   *)
(* to come, within the longest delay of setTimeout. A call takes three      *)
(* steps: it is made (fs.readFile is asked for), the file is read and the   *)
(* call goes on to fs.writeFile, the file is written and the call returns.  *)

MaxReminderCallers == 2
MaxReminderCalls == 3

ReminderCallers == 1..MaxReminderCallers
ReminderIds == {"r1", "r2"}

NoReminderCall == [pc |-> "idle", kind |-> "none", id |-> "", store |-> <<>>]

NoReminderLog == [calls |-> 0, issued |-> {}, created |-> {}, deleted |-> {}]

RemindersIdle ==
    /\ remindersFile = <<>>
    /\ activeSchedules = {}
    /\ reminderCall = [c \in ReminderCallers |-> NoReminderCall]
    /\ reminderLog = NoReminderLog

RemindersInit == RemindersIdle

\* store.reminders.findIndex((r) => r.id === id), from 1; 0 for -1.
findIndex(reminders, id) ==
    IF \E i \in DOMAIN reminders : reminders[i] = id
    THEN CHOOSE i \in DOMAIN reminders :
             reminders[i] = id /\ \A j \in 1..(i - 1) : reminders[j] # id
    ELSE 0

\* store.reminders.splice(index, 1)
splice(reminders, index) ==
    [i \in 1..(Len(reminders) - 1) |->
        IF i < index THEN reminders[i] ELSE reminders[i + 1]]

ReminderCallMade(c, kind, id) ==
    /\ reminderCall[c].pc = "idle"
    /\ reminderLog.calls < MaxReminderCalls
    /\ reminderCall' = [reminderCall EXCEPT ![c] =
           [pc |-> "load", kind |-> kind, id |-> id, store |-> <<>>]]

\* createReminder(...) up to await loadReminders(); generateId() gives an id
\* no reminder had.
CreateReminderCalled(c, id) ==
    /\ id \notin reminderLog.issued
    /\ ReminderCallMade(c, "create", id)
    /\ reminderLog' = [reminderLog EXCEPT !.calls = @ + 1, !.issued = @ \cup {id}]
    /\ UNCHANGED <<remindersFile, activeSchedules>>
    /\ UNCHANGED notReminders

\* deleteReminder(id) up to await loadReminders().
DeleteReminderCalled(c, id) ==
    /\ ReminderCallMade(c, "delete", id)
    /\ reminderLog' = [reminderLog EXCEPT !.calls = @ + 1]
    /\ UNCHANGED <<remindersFile, activeSchedules>>
    /\ UNCHANGED notReminders

\* The timer of a one-shot reminder: executeReminder(reminder), and
\* activeSchedules.delete(reminder.id). When the message is sent,
\* deleteReminder(reminder.id) is called; when sendMessage throws, it is not.
ExecuteReminder(c, id, sent) ==
    /\ id \in activeSchedules
    /\ activeSchedules' = activeSchedules \ {id}
    /\ IF sent
       THEN /\ ReminderCallMade(c, "delete", id)
            /\ reminderLog' = [reminderLog EXCEPT !.calls = @ + 1]
       ELSE /\ reminderCall[c].pc = "idle"
            /\ UNCHANGED <<reminderCall, reminderLog>>
    /\ UNCHANGED remindersFile
    /\ UNCHANGED notReminders

\* loadReminders() returns what the file holds, and the call goes on to its
\* await saveReminders(store): createReminder pushes its reminder;
\* deleteReminder returns false when the id is not there, else splices it.
LoadReminders(c) ==
    LET call == reminderCall[c]
        index == findIndex(remindersFile, call.id)
    IN  /\ call.pc = "load"
        /\ reminderCall' = [reminderCall EXCEPT ![c] =
               IF call.kind = "create"
               THEN [call EXCEPT !.pc = "save", !.store = Append(remindersFile, call.id)]
               ELSE IF index = 0 THEN NoReminderCall
               ELSE [call EXCEPT !.pc = "save", !.store = splice(remindersFile, index)]]
        /\ UNCHANGED <<remindersFile, activeSchedules, reminderLog>>
        /\ UNCHANGED notReminders

\* saveReminders(store) writes the file, and the call returns:
\* createReminder after scheduleReminder(reminder), deleteReminder after it
\* has stopped the task of the id.
SaveReminders(c) ==
    LET call == reminderCall[c]
    IN  /\ call.pc = "save"
        /\ remindersFile' = call.store
        /\ activeSchedules' = IF call.kind = "create"
                              THEN activeSchedules \cup {call.id}
                              ELSE activeSchedules \ {call.id}
        /\ reminderLog' = IF call.kind = "create"
                          THEN [reminderLog EXCEPT !.created = @ \cup {call.id}]
                          ELSE [reminderLog EXCEPT !.deleted = @ \cup {call.id}]
        /\ reminderCall' = [reminderCall EXCEPT ![c] = NoReminderCall]
        /\ UNCHANGED notReminders

NextReminders ==
    \/ \E c \in ReminderCallers, id \in ReminderIds : CreateReminderCalled(c, id)
    \/ \E c \in ReminderCallers, id \in ReminderIds : DeleteReminderCalled(c, id)
    \/ \E c \in ReminderCallers, id \in ReminderIds, sent \in BOOLEAN :
          ExecuteReminder(c, id, sent)
    \/ \E c \in ReminderCallers : LoadReminders(c)
    \/ \E c \in ReminderCallers : SaveReminders(c)

-----------------------------------------------------------------------------
(* The specifications, one per subsystem                                    *)

\* The session store, warmup, the embedding module and the calls of pure
\* functions at rest.
OtherIdle == CronCallIdle /\ SessionIdle /\ WarmupIdle /\ PipelineIdle /\ EmbedIdle /\ ChunkIdle /\ SplitIdle /\ RrfIdle /\ HybridIdle /\ CommandIdle /\ WorkspaceIdle /\ RemindersIdle

\* The subsystems of coreVars at rest.
CoreIdle ==
    /\ JobsIdle /\ SmartIdle /\ TurnIdle /\ AgentIdle /\ wr = WrStart
    /\ ChatIdle /\ CronIdle /\ SchedIdle

InitRetry == OtherIdle /\ JobsIdle /\ SmartIdle /\ TurnIdle /\ AgentIdle /\ wr = WrStart /\ ChatIdle /\ CronIdle /\ SchedIdle

SpecRetry == InitRetry /\ [][NextRetry]_vars

InitChat == OtherIdle /\ JobsIdle /\ SmartIdle /\ TurnIdle /\ AgentIdle /\ wr = WrStart /\ ChatInit /\ CronIdle /\ SchedIdle

SpecChat == InitChat /\ [][NextChat]_vars

InitThinking == OtherIdle /\ JobsIdle /\ SmartIdle /\ TurnIdle /\ AgentIdle /\ wr = WrStart /\ ThinkingInit /\ CronIdle /\ SchedIdle

SpecThinking == InitThinking /\ [][NextChat]_vars

InitCron == OtherIdle /\ JobsIdle /\ SmartIdle /\ TurnIdle /\ AgentIdle /\ wr = WrStart /\ ChatIdle /\ CronInit /\ SchedIdle

SpecCron == InitCron /\ [][NextCron]_vars

InitLock == OtherIdle /\ JobsIdle /\ SmartIdle /\ TurnIdle /\ AgentIdle /\ wr = WrStart /\ ChatIdle /\ LockInit /\ SchedIdle

\* The store's operations when every caller inside withLock keeps being run.
SpecLock ==
    InitLock /\ [][NextCron]_vars /\ \A p \in Callers : WF_vars(CronStep(p))

InitSched == OtherIdle /\ JobsIdle /\ SmartIdle /\ TurnIdle /\ AgentIdle /\ wr = WrStart /\ ChatIdle /\ SchedInit

SpecSched == InitSched /\ [][NextSched]_vars

InitAgent == OtherIdle /\ JobsIdle /\ SmartIdle /\ TurnIdle /\ AgentInit /\ wr = WrStart /\ ChatIdle /\ CronIdle /\ SchedIdle

SpecAgent == InitAgent /\ [][NextAgent]_vars

SpecCleanup == InitAgent /\ [][NextCleanup]_vars

InitTurn == OtherIdle /\ JobsIdle /\ SmartIdle /\ TurnInit /\ AgentIdle /\ wr = WrStart /\ ChatIdle /\ CronIdle /\ SchedIdle

SpecTurn == InitTurn /\ [][NextTurn]_vars

InitSmart == OtherIdle /\ JobsIdle /\ SmartInit /\ TurnIdle /\ AgentIdle /\ CronIdle /\ SchedIdle

SpecSmart == InitSmart /\ [][NextSmart]_vars

InitJobs ==
    /\ OtherIdle
    /\ jobsLast = NoOp /\ jobsRun = NoRun
    /\ SmartIdle /\ TurnIdle /\ AgentIdle /\ wr = WrStart /\ ChatIdle /\ CronIdle /\ SchedIdle

SpecJobs == InitJobs /\ [][NextJobs]_vars

InitCronCall == CoreIdle /\ RemindersIdle /\ WorkspaceIdle /\ CommandIdle /\ HybridIdle /\ RrfIdle /\ SplitIdle /\ ChunkIdle /\ EmbedIdle /\ PipelineIdle /\ WarmupIdle /\ SessionIdle /\ CronCallInit

SpecCronCall == InitCronCall /\ [][NextCronCall]_vars

InitSession ==
    /\ WarmupIdle /\ PipelineIdle /\ EmbedIdle /\ ChunkIdle /\ SplitIdle /\ RrfIdle /\ HybridIdle /\ CommandIdle /\ WorkspaceIdle /\ RemindersIdle /\ CronCallIdle /\ JobsIdle /\ SmartIdle /\ TurnIdle /\ AgentIdle /\ wr = WrStart
    /\ ChatIdle /\ cronFile = <<>> /\ CronQuiet /\ SchedIdle
    /\ SessionInit

SpecSession == InitSession /\ [][NextSession]_vars

InitWarmup == CoreIdle /\ RemindersIdle /\ WorkspaceIdle /\ CommandIdle /\ HybridIdle /\ RrfIdle /\ SplitIdle /\ ChunkIdle /\ EmbedIdle /\ PipelineIdle /\ CronCallIdle /\ SessionIdle /\ WarmupInit

SpecWarmup == InitWarmup /\ [][NextWarmup]_vars

InitPipeline == CoreIdle /\ RemindersIdle /\ WorkspaceIdle /\ CommandIdle /\ HybridIdle /\ RrfIdle /\ SplitIdle /\ ChunkIdle /\ EmbedIdle /\ CronCallIdle /\ SessionIdle /\ WarmupIdle /\ PipelineInit

SpecPipeline == InitPipeline /\ [][NextPipeline]_vars

InitEmbed ==
    /\ SessionIdle /\ WarmupIdle /\ PipelineLoaded
    /\ ChunkIdle /\ SplitIdle /\ RrfIdle /\ HybridIdle /\ CommandIdle /\ WorkspaceIdle /\ RemindersIdle /\ CronCallIdle /\ JobsIdle /\ SmartIdle /\ TurnIdle /\ AgentIdle /\ wr = WrStart
    /\ ChatIdle /\ cronFile = <<>> /\ CronQuiet /\ SchedIdle
    /\ EmbedInit

SpecEmbed == InitEmbed /\ [][NextEmbed]_vars

InitChunk ==
    CoreIdle /\ RemindersIdle /\ WorkspaceIdle /\ CommandIdle /\ HybridIdle /\ RrfIdle /\ CronCallIdle /\ SessionIdle /\ WarmupIdle /\ PipelineIdle /\ EmbedIdle
    /\ SplitIdle /\ ChunkInit

SpecChunk == InitChunk /\ [][NextChunk]_vars

InitSplit ==
    CoreIdle /\ RemindersIdle /\ WorkspaceIdle /\ CommandIdle /\ HybridIdle /\ RrfIdle /\ CronCallIdle /\ SessionIdle /\ WarmupIdle /\ PipelineIdle /\ EmbedIdle
    /\ ChunkIdle /\ SplitInit

SpecSplit == InitSplit /\ [][NextSplit]_vars

InitRrf == CoreIdle /\ RemindersIdle /\ WorkspaceIdle /\ CommandIdle /\ HybridIdle /\ CronCallIdle /\ SessionIdle /\ WarmupIdle /\ PipelineIdle /\ EmbedIdle /\ ChunkIdle /\ SplitIdle /\ RrfInit

SpecRrf == InitRrf /\ [][NextRrf]_vars

InitHybrid == CoreIdle /\ RemindersIdle /\ WorkspaceIdle /\ CommandIdle /\ CronCallIdle /\ SessionIdle /\ WarmupIdle /\ PipelineIdle /\ EmbedIdle /\ ChunkIdle /\ SplitIdle /\ RrfIdle /\ HybridInit

SpecHybrid == InitHybrid /\ [][NextHybrid]_vars

InitCommand == CoreIdle /\ RemindersIdle /\ WorkspaceIdle /\ CronCallIdle /\ SessionIdle /\ WarmupIdle /\ PipelineIdle /\ EmbedIdle /\ ChunkIdle /\ SplitIdle /\ RrfIdle /\ HybridIdle /\ CommandInit

SpecCommand == InitCommand /\ [][NextCommand]_vars

InitWorkspace == CoreIdle /\ RemindersIdle /\ CronCallIdle /\ SessionIdle /\ WarmupIdle /\ PipelineIdle /\ EmbedIdle /\ ChunkIdle /\ SplitIdle /\ RrfIdle /\ HybridIdle /\ CommandIdle /\ WorkspaceInit

SpecWorkspace == InitWorkspace /\ [][NextWorkspace]_vars

InitReminders == CoreIdle /\ CronCallIdle /\ SessionIdle /\ WarmupIdle /\ PipelineIdle /\ EmbedIdle /\ ChunkIdle /\ SplitIdle /\ RrfIdle /\ HybridIdle /\ CommandIdle /\ WorkspaceIdle /\ RemindersInit

SpecReminders == InitReminders /\ [][NextReminders]_vars

-----------------------------------------------------------------------------
(* Properties of chat() (SpecChat)                                          *)

\* The tool_use blocks of the assistant message at position m of apiMessages
\* and the content of the message after it.
UsesAt(m) == SelectSeq(apiMessages[m].content, IsToolUse)
ResultsAfter(m) == apiMessages[m + 1].content

AssistantPositions ==
    {m \in 1..Len(apiMessages) : apiMessages[m].role = "assistant"}

\* C1: in every tool round the user message appended after the assistant
\* message holds exactly one tool_result per tool_use block of that assistant
\* message, the i-th tool_result carrying the id (and the result) of the i-th
\* tool_use, whatever order the parallel executions settled in.
C1_ResultsMatchUsesInOrder ==
    \A m \in AssistantPositions :
        /\ m < Len(apiMessages)
        /\ apiMessages[m + 1].role = "user"
        /\ Len(ResultsAfter(m)) = Len(UsesAt(m))
        /\ \A i \in 1..Len(UsesAt(m)) :
              /\ ResultsAfter(m)[i].type = "tool_result"
              /\ ResultsAfter(m)[i].tool_use_id = UsesAt(m)[i].id
              /\ ResultsAfter(m)[i].content =
                    ToolExecution(UsesAt(m)[i], script.outcome[i]).result

\* A round of two tools whose second tool settled first has been appended.
C1_Witness ==
    /\ chatPc = "request" /\ requests = 2
    /\ toolDone = <<2, 1>>
    /\ Len(ResultsAfter(2)) = 2

\* C7: whatever the model answers, also when every response requests tools,
\* chat() runs at most MAX_TOOL_ITERATIONS tool rounds and issues at most
\* MAX_TOOL_ITERATIONS + 1 model requests (the attempts of one request, retries
\* and the non-streamed repeat of a failed streamed first request, counted
\* once), and returns on the answer to the last of them.
C7_ToolLoopBounded ==
    /\ iterations <= MAX_TOOL_ITERATIONS
    /\ requests <= MAX_TOOL_ITERATIONS + 1
    /\ Len(apiMessages) = 1 + 2 * (requests - 1)
    /\ (requests = MAX_TOOL_ITERATIONS + 1 /\ wr.pc = "ok") => chatPc = "returned"

\* chat() has returned after MAX_TOOL_ITERATIONS rounds and as many requests
\* plus one, the last response still asking for tools.
C7_Witness ==
    /\ chatPc = "returned"
    /\ iterations = MAX_TOOL_ITERATIONS
    /\ requests = MAX_TOOL_ITERATIONS + 1
    /\ response.stop_reason = "tool_use"

\* C8: when chat() reaches MAX_TOOL_ITERATIONS and the model still requests
\* tools, it returns the fixed "too many tool calls" text together with the
\* summaries of all the tool calls executed.
C8_CapReturnsFixedText ==
    (/\ chatPc = "returned"
     /\ iterations = MAX_TOOL_ITERATIONS
     /\ response.stop_reason = "tool_use")
    => /\ chatResult.text = TooManyToolCalls
       /\ chatResult.toolsUsed = toolsUsed
       /\ Len(toolsUsed) = MAX_TOOL_ITERATIONS * script.k

\* C9: a tool execution that throws or times out never ends the turn (only a
\* failed model request does): its tool_result is a string starting with
\* "Error: " (naming the timeout when it timed out), the other tools' results
\* of the round are delivered at their places, and the round is followed by a
\* new request to the model.
C9_ToolFailureStaysInTurn ==
    /\ chatPc = "thrown" => wr.pc = "thrown"
    /\ Len(apiMessages) = 1 + 2 * (requests - 1)
    /\ \A m \in AssistantPositions :
          /\ Len(ResultsAfter(m)) = script.k
          /\ \A i \in 1..script.k :
                LET content == ResultsAfter(m)[i].content
                IN  /\ ResultsAfter(m)[i].tool_use_id = UsesAt(m)[i].id
                    /\ script.outcome[i] # "ok" => Head(content.s) = "Error: "
                    /\ script.outcome[i] = "timeout" =>
                          " timed out after " \in Range(content.s)
                    /\ script.outcome[i] = "ok" =>
                          content.s = <<"output of ", UsesAt(m)[i].name>>

\* A round whose first tool timed out and whose second tool returned (first)
\* has been appended and the next request is in flight.
C9_Witness ==
    /\ chatPc = "request" /\ wr.pc = "call" /\ requests = 3
    /\ script.k = 2 /\ script.outcome = <<"timeout", "ok">>
    /\ toolDone = <<2, 1>>

-----------------------------------------------------------------------------
(* Properties of withRetry (SpecRetry)                                      *)

\* The error classes the specification lists as transient.
ListedTransient(error) ==
    \/ /\ error.cls = "APIError"
       /\ error.status \in {408, 429} \cup 500..599
    \/ /\ error.cls = "Error"
       /\ error.msg \cap {"econnreset", "econnrefused", "etimedout", "timeout",
                          "rate limit"} # {}

-----------------------------------------------------------------------------
(* Properties of the cron store (SpecCron)                                  *)

\* The orders the callers' operations can be run in one after the other.
SerialOrders == {order \in [1..MaxCallers -> Callers] : Range(order) = Callers}

RECURSIVE RunInOrder(_, _, _)
RunInOrder(order, jobs, t) ==
    IF order = <<>> THEN jobs
    ELSE RunInOrder(Tail(order), RunAlone(cronOp[Head(order)], jobs, t), t)

SerialOutcomes == {RunInOrder(order, InitialJobs, 0) : order \in SerialOrders}

AllCallersReturned == \A p \in Callers : cronPc[p] \in {"done", "thrown"}

\* C2: whatever the interleaving of concurrent addJob, removeJob, updateJob and
\* markJobExecuted calls, once they have all returned cron-jobs.json holds what
\* running them one after the other in some order leaves: no update is lost.
\* (Stated for the runs in which the file system fails no creation of the lock
\* file otherwise than by EEXIST.)
C2_StoreIsSerializable ==
    (AllCallersReturned /\ ~cronFault) => cronFile \in SerialOutcomes

-----------------------------------------------------------------------------
(* Properties of the scheduler (SpecSched)                                  *)

\* C3: no job is dispatched by two ticks for the same nextRun value, also when
\* a payload is still executing when the next tick arrives.
C3_OneDispatchPerNextRun ==
    \A i, k \in DOMAIN dispatched :
        (/\ dispatched[i].jobId = dispatched[k].jobId
         /\ dispatched[i].nextRun = dispatched[k].nextRun) => i = k

-----------------------------------------------------------------------------
(* Properties of the agent manager (SpecAgent)                              *)

\* C4: once cancelAgent has returned true for an agent, whenever its LLM call
\* finishes no result and no error is recorded on the agent and no completion
\* or failure message about it is posted.
C4_CancelDiscardsOutcome ==
    \A id \in AgentIds :
        cancelOk[id] =>
            /\ agents[id].result = "" /\ agents[id].error = ""
            /\ \A m \in DOMAIN posted :
                  posted[m].agent = id => posted[m].kind \notin {"completed", "failed"}

\* C5: a status changes only from running to completed, failed or cancelled
\* (after the agent was spawned running); a completed, failed or cancelled
\* status never changes again.
C5_StatusTransitions ==
    [][\A id \in AgentIds :
          agents'[id].status # agents[id].status =>
              \/ agents[id].status = "none" /\ agents'[id].status = "running"
              \/ /\ agents[id].status = "running"
                 /\ agents'[id].status \in {"completed", "failed", "cancelled"}]_vars

-----------------------------------------------------------------------------
(* Properties of the current chat id (SpecTurn)                             *)

\* C6: when turns of distinct conversations overlap, every read of the current
\* chat id made for a turn, by the prompt builder or by a tool, returns the
\* chat id of that turn.
C6_ReadsOwnChatId ==
    \A t \in Turns : \A i \in DOMAIN turnReads[t] : turnReads[t][i] = turnChat[t]

-----------------------------------------------------------------------------
\* Properties of the retry wrapper's waits (tokens.ts withRetry).

\* C11: when the error of a failed attempt is a 429 carrying a Retry-After of
\* s seconds, the sleep before the next attempt lasts at least s seconds.
C11_WaitsAtLeastRetryAfter ==
    (wr.pc = "sleep" /\ getRetryAfterMs(wr.lastError) # NULL)
        => wr.sleeping >= getRetryAfterMs(wr.lastError)

\* C12: a model request of chat() that ran into the outer request timeout is
\* retried: chat() throws a timeout error only after maxRetries retries, that
\* is, after maxRetries + 1 calls of the request.
C12_TimeoutIsRetried ==
    (chatPc = "thrown" /\ wr.lastError.cls = "TimeoutError")
        => wr.calls = maxRetries + 1

-----------------------------------------------------------------------------
\* Properties of chatSmart(), the streaming variant.

\* C13 (as stated): once a chunk has been delivered through the callback, an
\* error of the stream is not retried (chat() is never called) and chatSmart()
\* returns the accumulated text with the failure notice appended.
C13_PartialAnswerReturned ==
    (streamErr # NoError /\ Len(delivered) > 0)
        => /\ chatCalls = 0
           /\ smartPc = "returned"
           /\ smartResult.kind = "value"
           /\ smartResult.text = accumulated \o FAILURE_NOTICE

\* C13 (amended): once a chunk has been delivered through the callback, an
\* error of the stream is not retried: chat() is never called and no request
\* is in flight; chatSmart() returns the accumulated text with the failure
\* notice appended when that text is not empty, and throws the stream's error
\* when every delivered chunk was empty.
C13_NoRetryOnceStreamed ==
    (streamErr # NoError /\ Len(delivered) > 0)
        => /\ chatCalls = 0
           /\ chatPc = "idle"
           /\ IF Len(accumulated) > 0
              THEN /\ smartPc = "returned"
                   /\ smartResult.kind = "value"
                   /\ smartResult.text = accumulated \o FAILURE_NOTICE
                   /\ ~smartResult.usedTools
              ELSE /\ smartPc = "thrown"
                   /\ smartResult.kind = "error"
                   /\ smartResult.error = streamErr

\* A stream that delivered text and then failed with an error that would have
\* been retried before the first chunk.
C13_Witness ==
    /\ streamErr = APIError(500, NULL)
    /\ Len(delivered) = MaxChunks
    /\ Len(accumulated) > 0
    /\ smartPc = "returned"

\* C14: an error of the stream raised before any chunk is retried (chat() is
\* called under withRetry) if and only if it is transient under the policy of
\* the non-streaming call (isTransientError).
C14_PreStreamRetryIffTransient ==
    (streamErr # NoError /\ Len(delivered) = 0)
        => (chatCalls > 0 <=> isTransientError(streamErr))

-----------------------------------------------------------------------------
\* Properties of the parameters of chat()'s requests.

\* C15: every request chat() issues after the first one of an invocation (the
\* re-submissions that carry tool results) is sent without params.thinking,
\* whatever the first request was sent with.
C15_LaterRequestsWithoutThinking ==
    \A i \in DOMAIN sentParams :
        sentParams[i].request > 1 => ~sentParams[i].thinking

-----------------------------------------------------------------------------
\* Properties of the stored document and of the jobs in it.

\* C16: at every moment cron-jobs.json holds a whole serialized store: no
\* reader can find a partially written file under the store's path (stated
\* for the runs in which no creation of the lock file failed otherwise than
\* by EEXIST).
C16_StoreFileAlwaysWhole == ~cronFault => cronFileComplete

\* The job an operation was about, as it is stored.
StoredJob(jobs, jobId) == jobs[FindIndex(jobs, jobId)]

\* C17: a job written by addJob or by markJobExecuted carries a nextRun that
\* is undefined or strictly later than the instant at which it was computed,
\* whatever the schedule.
C17_NextRunAbsentOrLater ==
    (jobsLast.kind \in {"addJob", "markJobExecuted"})
        => LET job == StoredJob(cronFile, jobsLast.jobId)
           IN  job.nextRun = NULL \/ job.nextRun > jobsLast.at

\* C18: in every stored state reached through addJob, updateJob and
\* markJobExecuted, a job with maxRuns set and runCount >= maxRuns is disabled
\* and has no nextRun.
C18_ExhaustedJobIsTerminal ==
    \A i \in DOMAIN cronFile :
        LET job == cronFile[i]
        IN  (job.maxRuns # NULL /\ job.runCount >= job.maxRuns)
                => (~job.enabled /\ job.nextRun = NULL)

\* C19: markJobExecuted applied a second time for the same execution of a job
\* leaves the runCount, the enabled flag and the presence of a nextRun that
\* the first application left.
C19_MarkExecutedIdempotent ==
    (jobsLast.kind = "markJobExecuted" /\ jobsLast.marks = 2)
        => LET once == StoredJob(jobsLast.before, jobsLast.jobId)
               twice == StoredJob(cronFile, jobsLast.jobId)
           IN  /\ twice.runCount = once.runCount
               /\ twice.enabled = once.enabled
               /\ (twice.nextRun = NULL) = (once.nextRun = NULL)

SatisfiesAllFields(expression, local) ==
    LET date == DateOfDay(LocalDay(local))
    IN  /\ LocalMinute(local) \in parseCronField(expression[1], 0, 59)
        /\ LocalHour(local) \in parseCronField(expression[2], 0, 23)
        /\ date.day \in parseCronField(expression[3], 1, 31)
        /\ date.month \in parseCronField(expression[4], 1, 12)
        /\ date.dayOfWeek \in parseCronField(expression[5], 0, 6)

\* How far ahead the earliest instant is looked for: four days.
SearchHorizon == 4 * MINUTES_PER_DAY

\* The instants after t, within the horizon, whose components in the zone
\* satisfy all five fields.
MatchingInstants(expression, tz, t) ==
    {m \in (t + 1)..(t + SearchHorizon) :
        SatisfiesAllFields(expression, m + UtcOffset(tz))}

\* C21: the next run computed for a cron expression is the earliest instant
\* (of whole minutes) after now whose components in the job's time zone
\* satisfy all five fields.
C21_NextRunIsEarliestMatch ==
    cronCall.pc = "returned" =>
        LET tz == TimezoneOf(cronCall.timezone, cronCall.host)
            instants == MatchingInstants(cronCall.expression, tz, cronCall.at)
        IN  instants # {} => cronCall.nextRun = SetMin(instants)

\* C22: every store operation that has entered withLock eventually ends
\* (returns or throws), whether a lock file was left behind or another
\* operation holds the lock, and when it ends no lock file is left.
C22_EveryOperationCompletes ==
    /\ \A p \in Callers :
          (cronPc[p] = "create") ~> (cronPc[p] \in {"done", "thrown"})
    /\ [][\A p \in Callers :
            (cronPc[p] \notin {"done", "thrown"}
             /\ cronPc'[p] \in {"done", "thrown"}) => ~lockFile'.exists]_vars

\* An operation has ended after its retries ran out against a lock that was
\* left behind, and another one after it removed a stale lock or found none.
C22_Witness ==
    \E p \in Callers :
        /\ cronPc[p] = "done"
        /\ cronTry[p] >= LOCK_MAX_RETRIES
        /\ ~cronFault

\* C23: after a cleanup sweep the agent map holds no agent completed more
\* than an hour ago and no agent still running that was created more than an
\* hour ago.
C23_SweepLeavesNoOldAgent ==
    [][CleanupOldAgents =>
        \A id \in AgentIds :
            InMap(agents'[id]) =>
                /\ ~(/\ agents'[id].completedAt # NULL
                     /\ now - agents'[id].completedAt > AGENT_MAX_AGE_MS)
                /\ ~(/\ agents'[id].status = "running"
                     /\ now - agents'[id].createdAt > AGENT_MAX_AGE_MS)]_vars

\* C24: whatever calls of getHistory, getModel, setModel and clearHistory are
\* made, the map never holds more than MAX_SESSIONS sessions.
C24_SessionCountWithinCap == Len(sessions) <= MAX_SESSIONS

\* A call for a new conversation found the map full and left it full.
C24_Witness ==
    /\ sessionOp.kind \in {"getHistory", "getModel", "setModel"}
    /\ sessionOp.sizeBefore = MAX_SESSIONS
    /\ sessionOp.isNew
    /\ Len(sessions) = MAX_SESSIONS

\* C25: when sessions are evicted, no session that remains was last accessed
\* before an evicted one.
C25_EvictionIsLeastRecentlyAccessed ==
    \A i \in DOMAIN sessionOp.evicted, k \in DOMAIN sessions :
        sessions[k].lastAccessedAt >= sessionOp.evicted[i].lastAccessedAt

\* The map was full of sessions accessed at different times; one was evicted,
\* one as old as the evicted one remains and so does a more recent one.
C25_Witness ==
    /\ Len(sessionOp.evicted) = 1
    /\ sessionOp.sizeBefore = MAX_SESSIONS
    /\ \E k \in DOMAIN sessions :
          sessions[k].lastAccessedAt = sessionOp.evicted[1].lastAccessedAt
    /\ \E k \in DOMAIN sessions :
          /\ sessions[k].chatId # sessionOp.chatId
          /\ sessions[k].lastAccessedAt > sessionOp.evicted[1].lastAccessedAt

-----------------------------------------------------------------------------
(* Properties of warmup() (SpecWarmup)                                      *)

\* The callers whose warmup() call has not returned yet.
WarmupWaiting == {c \in WarmupCallers : warmupCaller[c].pc \in {"awaiting", "sharing"}}

\* C26: over any number of sequential or concurrent warmup() calls the
\* preloads are started at most once (there is at most one doWarmup run), the
\* callers that wait at the same time wait for the same promise, and a call
\* made once warmup is complete returns the cached result and starts nothing.
C26_WarmupRunsOnce ==
    /\ [](/\ Len(warmupRuns) <= 1
          /\ \A c, d \in WarmupWaiting :
                 warmupCaller[c].promise = warmupCaller[d].promise)
    /\ [][\A c \in WarmupCallers :
             WarmupCall(c) /\ warmupComplete =>
                 /\ warmupCaller'[c].pc = "returned"
                 /\ warmupCaller'[c].got = warmupResult
                 /\ warmupRuns' = warmupRuns]_vars

\* One caller started the warmup, a second one shared its promise, a third
\* one called after completion, and all three hold the result of the one run.
C26_Witness ==
    \E c, d, f \in WarmupCallers :
        /\ warmupCaller[c].how = "started"
        /\ warmupCaller[d].how = "shared"
        /\ warmupCaller[f].how = "cached"
        /\ \A x \in {c, d, f} :
               warmupCaller[x].pc = "returned" /\ warmupCaller[x].got = warmupResult
        /\ Len(warmupRuns) = 1

-----------------------------------------------------------------------------
(* Properties of getEmbeddingPipeline() (SpecPipeline)                      *)

PendingLoads == {l \in 1..Len(pipelineLoads) : pipelineLoads[l] = "pending"}
ResolvedLoads == {l \in 1..Len(pipelineLoads) : pipelineLoads[l] = "resolved"}

\* C27: at most one model load is in flight at any time, a caller that comes
\* while a load is in flight starts none and is handed that load, and once a
\* load has succeeded no further load is ever started.
C27_PipelineIsSingleton ==
    /\ [](Cardinality(PendingLoads) <= 1)
    /\ [][\A c \in PipelineCallers :
             PipelineCall(c) /\ PendingLoads # {} =>
                 /\ pipelineLoads' = pipelineLoads
                 /\ pipelineCaller'[c].promise \in PendingLoads]_vars
    /\ [][ResolvedLoads # {} => pipelineLoads' = pipelineLoads]_vars

\* One caller loaded the model, a second one shared the load, a third one
\* called afterwards, and all three hold the pipeline of that load.
C27_Witness ==
    \E c, d, f \in PipelineCallers :
        /\ pipelineCaller[c].how = "started"
        /\ pipelineCaller[d].how = "shared"
        /\ pipelineCaller[f].how = "cached"
        /\ \A x \in {c, d, f} :
               pipelineCaller[x].pc = "returned"
               /\ pipelineCaller[x].got = embeddingPipeline

-----------------------------------------------------------------------------
(* Properties of the query-embedding cache (SpecEmbed)                      *)

\* A step of embedBatch.
EmbedBatchStep ==
    \/ \E c \in EmbedCallers, texts \in EmbedBatches : EmbedBatchCalled(c, texts)
    \/ \E c \in EmbedCallers, outcome \in {"resolved", "rejected"} :
          EmbedBatchSettles(c, outcome)

\* C28: after any sequence of embed and embedBatch calls the cache holds at
\* most QUERY_CACHE_MAX_SIZE entries; no entry that remains was last used
\* before an evicted one; embedBatch leaves the cache as it is, and a batch
\* with a text that is not empty waits for the model, cached or not.
C28_QueryCacheIsBoundedLru ==
    /\ [](/\ Len(queryEmbeddingCache) <= QUERY_CACHE_MAX_SIZE
          /\ \A i \in DOMAIN embedOp.evicted, k \in DOMAIN queryEmbeddingCache :
                 queryEmbeddingCache[k].lastUsed >= embedOp.evicted[i].lastUsed)
    /\ [][EmbedBatchStep => queryEmbeddingCache' = queryEmbeddingCache]_vars
    /\ [][\A c \in EmbedCallers, texts \in EmbedBatches :
             /\ EmbedBatchCalled(c, texts)
             /\ \E k \in DOMAIN texts : CleanOrNone(texts[k]) # 0
             => embedCaller'[c].pc = "computing"]_vars

\* The full cache took a new text: the entry evicted was last used no later
\* than the others, one entry used as long ago remains, and an embedBatch
\* call is waiting for the vector of a text the cache holds.
C28_Witness ==
    /\ Len(embedOp.evicted) = 1
    /\ embedOp.sizeBefore = QUERY_CACHE_MAX_SIZE
    /\ Len(queryEmbeddingCache) = QUERY_CACHE_MAX_SIZE
    /\ \E k \in DOMAIN queryEmbeddingCache :
          queryEmbeddingCache[k].lastUsed = embedOp.evicted[1].lastUsed
    /\ \E k \in DOMAIN queryEmbeddingCache :
          /\ queryEmbeddingCache[k].key > MaxNewKeys
          /\ queryEmbeddingCache[k].lastUsed > embedOp.evicted[1].lastUsed
    /\ \E c \in EmbedCallers :
          /\ embedCaller[c].kind = "embedBatch"
          /\ embedCaller[c].pc = "computing"
          /\ CacheIndex(queryEmbeddingCache, embedCaller[c].cleans[1]) # 0

-----------------------------------------------------------------------------
(* Properties of the vector store (SpecChunk)                               *)

\* The table holds the chunk: the row of its id has its text, source, hash
\* and timestamp.
ChunkStored(chunk) ==
    \E r \in chunkRows :
        [r EXCEPT !.embedding = NoEmbedding]
            = [chunk EXCEPT !.id = ChunkId(chunk), !.embedding = NoEmbedding]

\* C29: when a chunk the table holds is upserted again, the table holds one
\* row of its hash afterwards, and that row still has the embedding that was
\* stored for the hash.
C29_UpsertIsIdempotentByHash ==
    [][\A chunk \in Chunks :
          (UpsertChunk(chunk) \/ UpsertChunksBatch(<<chunk>>)) /\ ChunkStored(chunk)
          => /\ Cardinality({r \in chunkRows' : r.hash = chunk.hash}) = 1
             /\ \A r \in chunkRows :
                    r.hash = chunk.hash /\ r.embedding # NoEmbedding
                    => \E q \in chunkRows' :
                           q.hash = chunk.hash /\ q.embedding = r.embedding]_vars

-----------------------------------------------------------------------------
(* Properties of splitIntoChunks (SpecSplit)                                *)

\* C30: every chunk splitIntoChunks makes of a text is MIN_CHUNK_LENGTH to
\* MAX_CHUNK_LENGTH characters long, the pieces of a section that was too
\* long included.
C30_ChunkLengthWithinBounds ==
    \A k \in DOMAIN splitCall.chunks :
        /\ StrLen(splitCall.chunks[k]) >= MIN_CHUNK_LENGTH
        /\ StrLen(splitCall.chunks[k]) <= MAX_CHUNK_LENGTH


-----------------------------------------------------------------------------
(* Properties of combineWithRRF (SpecRrf)                                   *)

\* The call of the documented example: vector results A, B, C, keyword
\* results C, D, A, and room for all four results.
FusionExample ==
    /\ rrfCall.pc = "returned"
    /\ rrfCall.vectorResults = <<SearchHit("A"), SearchHit("B"), SearchHit("C")>>
    /\ rrfCall.keywordResults = <<SearchHit("C"), SearchHit("D"), SearchHit("A")>>
    /\ rrfCall.topK = 5

TextsOf(results) == [i \in DOMAIN results |-> results[i].text]

\* C31 as stated: with vector results A, B, C and keyword results C, D, A,
\* RRF with k = 60 returns C first, then A, then B and D.
C31_CommonResultFirst ==
    FusionExample =>
        /\ Len(rrfCall.results) = 4
        /\ rrfCall.results[1].text = "C"
        /\ rrfCall.results[2].text = "A"
        /\ {rrfCall.results[3].text, rrfCall.results[4].text} = {"B", "D"}

\* C31 as amended: with vector results A, B, C and keyword results C, D, A,
\* RRF with k = 60 gives A and C the same score, 1/61 + 1/63, and B and D the
\* same lower score, 1/62, and returns A, C, B, D: results of equal score
\* come in the order of the vector results, then of the keyword results.
C31_FusionOrder ==
    FusionExample =>
        /\ TextsOf(rrfCall.results) = <<"A", "C", "B", "D">>
        /\ ScoreEqual(rrfCall.results[1].score, <<124, 61 * 63>>)
        /\ ScoreEqual(rrfCall.results[2].score, rrfCall.results[1].score)
        /\ ScoreEqual(rrfCall.results[3].score, <<1, 62>>)
        /\ ScoreEqual(rrfCall.results[4].score, rrfCall.results[3].score)
        /\ ScoreAbove(rrfCall.results[2].score, rrfCall.results[3].score)

C31_Witness == FusionExample /\ Len(rrfCall.results) = 4


-----------------------------------------------------------------------------
(* Properties of hybridSearch (SpecHybrid)                                  *)

HitsOf(results) == {KeyOf(results[i]) : i \in DOMAIN results}

\* The vector part (the query embedding, then the vector search) has failed:
\* one of the two threw or was not over in time.
VectorPartFailed ==
    \/ hybrid.embedOutcome # "ok"
    \/ hybrid.vectorOutcome # "ok"

KeywordPartFailed == hybrid.keywordOutcome # "ok"

\* C32: hybridSearch never fails because one of its parts fails: when the
\* query embedding or the vector search throws or exceeds its timeout the
\* keyword results are returned, when the keyword search throws the vector
\* results are returned, and when both fail the result is empty.
C32_PartialFailureTolerated ==
    /\ hybrid.pc # "thrown"
    /\ hybrid.pc = "returned" =>
        /\ VectorPartFailed /\ ~KeywordPartFailed =>
              HitsOf(hybrid.results) = HitsOf(hybrid.keywordFinds)
        /\ KeywordPartFailed /\ ~VectorPartFailed =>
              HitsOf(hybrid.results) = HitsOf(hybrid.vectorFinds)
        /\ VectorPartFailed /\ KeywordPartFailed => hybrid.results = <<>>


-----------------------------------------------------------------------------
(* Properties of executeRunCommand (SpecCommand)                            *)

RmRfRoot == <<Token("", "rm"), Token("", "-rf"), Token("/", "")>>

\* C33: a command line is accepted only if every command in it passes the
\* whitelist and blocklist check: what an accepted command line runs is
\* whitelisted and not blocklisted, and `rm -rf /` is rejected.
C33_AcceptedRunsOnlyAllowed ==
    runCommand.pc = "returned" =>
        /\ \A binary \in runCommand.ran :
              binary \in ALLOWED_COMMANDS /\ binary \notin BLOCKED_COMMANDS
        /\ runCommand.command = RmRfRoot => ~runCommand.valid


-----------------------------------------------------------------------------
(* Further properties of chat() (SpecChat)                                  *)

\* The texts of the text blocks of the last response received.
LastResponseTexts ==
    LET textBlocks == SelectSeq(response.content, IsText)
    IN  [j \in 1..Len(textBlocks) |-> textBlocks[j].text]

\* C34: chat() returns the text of the last model response whenever that
\* response's stop reason is not tool_use, after any number of tool rounds
\* from 0 to MAX_TOOL_ITERATIONS; the fixed "too many tool calls" text is
\* returned only when the last response received still requests tools.
C34_FinalTextReturned ==
    chatPc = "returned" =>
        /\ response.stop_reason # "tool_use" /\ LastResponseTexts # <<>> =>
              chatResult.text \in {LastResponseTexts, <<LastResponseTexts[1]>>}
        /\ chatResult.text = TooManyToolCalls =>
              response.stop_reason = "tool_use"


-----------------------------------------------------------------------------
(* Further properties of the cron store's lock (SpecCron)                   *)

\* The caller is inside the function withLock runs for it.
InCriticalSection(p) == cronPc[p] \in {"load", "write", "writing", "rename"}

\* C35: releaseLock removes the lock file only when it is the lock the
\* releasing operation created: an operation that went on without the lock,
\* or whose lock was removed as stale, never deletes the lock of another
\* operation that is inside its critical section.
C35_ReleaseSparesOthersLock ==
    [][\A p \in Callers :
          CronRelease(p) /\ lockFile.exists /\ lockFile.owner # p =>
              ~(lockFile.owner \in Callers /\ InCriticalSection(lockFile.owner))]_vars


-----------------------------------------------------------------------------
(* Properties of the workspace cache (SpecWorkspace)                        *)

\* C36: after invalidateWorkspaceCache() has returned, no call of
\* getWorkspace() returns content that was read before the invalidation,
\* also when a load was in flight at the moment of the invalidation: what a
\* call returns was read after every invalidation that preceded the call.
C36_NoStaleWorkspaceAfterInvalidation ==
    \A c \in WsCallers :
        wsCaller[c].pc = "returned" => wsCaller[c].got >= wsCaller[c].calledAt

-----------------------------------------------------------------------------
(* Further properties of the vector store (SpecChunk)                       *)

\* A row of the table has the text, for the source.
TextStored(rows, text, source) ==
    \E r \in rows : r.text = text /\ r.source = source

\* C37: after loadAllMemoryChunks has read the memory files again, the table
\* has a row for every chunk of what the files hold now, whatever the rows
\* of the earlier loads were.
C37_ReloadStoresEveryChunk ==
    [][\A texts \in ChunkFiles, source \in ChunkSources :
          LoadAllMemoryChunks(texts, source)
          => \A k \in DOMAIN texts : TextStored(chunkRows', texts[k], source)]_vars

-----------------------------------------------------------------------------
(* Properties of the reminders (SpecReminders)                              *)

RemindersIn(file) == {file[i] : i \in DOMAIN file}

\* C38: when no call of createReminder or deleteReminder is in progress,
\* reminders.json holds the reminders that createReminder has returned and
\* that no deleteReminder has returned true for, and no other.
C38_FileIsCreatedMinusDeleted ==
    (\A c \in ReminderCallers : reminderCall[c].pc = "idle")
    => RemindersIn(remindersFile) = reminderLog.created \ reminderLog.deleted

-----------------------------------------------------------------------------
(* Further properties of the session store (SpecSession)                    *)

\* The session of the conversation was last accessed more than
\* SESSION_TTL_MS before t.
SessionExpired(entries, chatId, t) ==
    \E i \in DOMAIN entries :
        entries[i].chatId = chatId /\ t - entries[i].lastAccessedAt > SESSION_TTL_MS

\* C39: getHistory for a conversation whose session was last accessed more
\* than 24 hours ago returns the empty history of a new session.
C39_ExpiredSessionNotServed ==
    [][\A chatId \in SessionChats :
          GetHistory(chatId) /\ SessionExpired(sessions, chatId, now)
          => sessions'[SessionIndex(sessions', chatId)].history = <<>>]_vars

-----------------------------------------------------------------------------
(* Further properties of the agent manager (SpecCleanup)                    *)

\* cleanupOldAgents deleted the agent from the map while it was running.
ReapedRunning(agent) == agent.deleted /\ agent.status = "running"

\* C40: once cleanupOldAgents has deleted a running agent from the map, no
\* message about the agent is posted, however its LLM call ends.
C40_ReapedAgentPostsNothing ==
    [][\A id \in AgentIds :
          ReapedRunning(agents[id])
          => \A m \in DOMAIN posted' : m > Len(posted) => posted'[m].agent # id]_vars

=============================================================================
